---------------------------- MODULE Spec2Model ----------------------------
(***************************************************************************)
(* A model of adk_claw: the lane-based Dispatcher with its idle-session    *)
(* reaper (src/src/adk_claw/dispatcher.py) and the debounced MessageQueue  *)
(* (src/src/adk_claw/queue.py).                                            *)
(*                                                                         *)
(* The program runs on one asyncio event loop: a coroutine runs without    *)
(* interruption from one suspension to the next.  Every action below is    *)
(* one such run of one coroutine.  The coroutines suspend at the await of  *)
(* a collaborator, of a lock that is held, of an empty queue and of a      *)
(* sleep; the model also lets the other coroutines run between two         *)
(* iterations of a worker's or the reaper's loop, so it has every          *)
(* interleaving of the event loop.  The collaborators (session service,    *)
(* agent runner, curator runner, memory service, reply sender, batch       *)
(* callback) are the environment: each awaited call returns or raises,     *)
(* chosen nondeterministically.                                            *)
(***************************************************************************)
EXTENDS Integers, Sequences, FiniteSets, TLC

(***************************************************************************)
(* Bounds of the model.                                                    *)
(***************************************************************************)
MaxItems == 2       \* WorkItems enqueued in one behaviour (both lanes together)
MaxTime == 2        \* the monotonic clock runs over 0..MaxTime
IdleTimeout == 1    \* settings.session_idle_timeout, in ticks of the clock
MaxFailures == 1    \* collaborator calls that raise in one behaviour
MaxPushes == 3      \* messages pushed to the MessageQueue in one behaviour
MaxQueueTime == 4   \* the clock of the MessageQueue runs over 0..MaxQueueTime
Debounce == 2       \* debounce_seconds, in ticks of the clock

Keys == {"a", "b"}                \* conversation keys (chat_id)
AdminChat == "a"                  \* settings.admin_chat_id
Lanes == {"chat", "heartbeat"}    \* the two lanes, each with one worker
CuratorConfigured == TRUE         \* curator_runner is not None

NoSession == 0      \* chat_id not in self._sessions
NoTime == -1        \* chat_id not in self._last_activity
SessionIds == 1..(2 * MaxItems)   \* ids the session service can hand out
NoItem == [chat_id |-> "", lane |-> "", id |-> 0]
NoTimer == 0        \* chat_id not in self._timers
Free == "free"

VARIABLES
    queues,          \* _chat_queue and _heartbeat_queue: [Lanes -> Seq(WorkItem)]
    sessions,        \* _sessions: [Keys -> SessionIds \cup {NoSession}]
    last_activity,   \* _last_activity: [Keys -> 0..MaxTime \cup {NoTime}]
    activity_order,  \* the key order of the dict _last_activity (insertion order)
    chat_locks,      \* _chat_locks: [Keys -> [holder, waiters]] (asyncio.Lock, FIFO)
    worker,          \* the two _worker coroutines: [Lanes -> [pc, item, session_id, response, waited_on]]
    reaper,          \* the _session_reaper coroutine: [pc, idle_chats, session_id, log, outcome, waited, raised]
    now,             \* time.monotonic()
    store,           \* the session service: ids created and not deleted
    counter,         \* the session service: ids handed out so far
    deleted,         \* record of delete_session calls: [SessionIds -> Nat]
    replaced,        \* session ids a rotation replaced by a new one
    installed,       \* [Keys -> id installed by the latest rotation that ran for the key, else NoSession]
    enqueued,        \* WorkItems enqueued so far
    failures,        \* collaborator calls that raised so far
    unfinished,      \* asyncio.Queue._unfinished_tasks of each lane: put() minus task_done()
    buffers,         \* MessageQueue._buffers: [Keys -> Seq(QueuedMessage)], <<>> for no entry
    timers,          \* MessageQueue._timers: [Keys -> task id], NoTimer for no entry
    tasks,           \* the _debounce_fire tasks: [1..MaxPushes -> [chat_id, pc, deadline, messages]]
    pushlog,         \* the pushes made so far: Seq([chat_id, id, at])
    delivered,       \* the batches handed to on_batch so far: Seq([chat_id, messages, task, upto])
    main,            \* main(): "running" until interrupted, then "exited"
    memory,          \* the calls Dispatcher.shutdown made: {[step, session_id]}
    chunks,          \* EmbeddingStore, table chunks: {[id, source_file, heading, content, content_hash]}
    vec_chunks,      \* EmbeddingStore, table vec_chunks: {[id, embedding]}
    autoincrement,   \* the largest id the table chunks has handed out (AUTOINCREMENT)
    call,            \* the latest call made to the memory subsystem, with what it returned
    files,           \* the markdown documents under memory/: [file name -> text], NoFile for none
    engine,          \* the MemorySearchEngine: [chunks, index, vector_enabled]
    dirty,           \* MarkdownMemoryService._dirty
    persisted_event_ids  \* MarkdownMemoryService._persisted_event_ids

\* the Dispatcher (without the clock) and the MessageQueue
dvars == <<queues, sessions, last_activity, activity_order, chat_locks, worker,
           reaper, store, counter, deleted, replaced, installed, enqueued,
           failures, unfinished>>

qvars == <<buffers, timers, tasks, pushlog, delivered>>

\* main() and the termination of the process
mvars == <<main, memory>>

\* the tables of the EmbeddingStore
tvars == <<chunks, vec_chunks, autoincrement>>

\* the memory subsystem: embedding store, search engine, memory service
\* the documents, the search engine built from them and the dirty flag
evars == <<files, engine, dirty, persisted_event_ids>>

svars == <<tvars, call, evars>>

vars == <<dvars, now, qvars, mvars, svars>>

(***************************************************************************)
(* Helpers.                                                                *)
(***************************************************************************)
Range(s) == {s[i] : i \in 1..Len(s)}

RECURSIVE SelectKeys(_, _)
\* the keys of a sequence that are in the set S, in the order of the sequence
SelectKeys(s, S) ==
    IF s = <<>> THEN <<>>
    ELSE IF Head(s) \in S THEN <<Head(s)>> \o SelectKeys(Tail(s), S)
         ELSE SelectKeys(Tail(s), S)

IdleWorker == [pc |-> "get", item |-> NoItem, session_id |-> NoSession,
               response |-> "", waited_on |-> NoSession]

SleepingReaper == [pc |-> "sleep", idle_chats |-> <<>>, session_id |-> NoSession,
                   log |-> <<>>, outcome |-> "", waited |-> FALSE, raised |-> {}]

NoTask == [chat_id |-> "", pc |-> "none", deadline |-> 0, messages |-> <<>>]

NoCall == [op |-> "none"]

MemoryFile == "memory/MEMORY.md"    \* the long-term document
LogFile == "memory/today.md"        \* the daily log, memory/<date>.md
FileNames == {MemoryFile, LogFile}
NoFile == <<"no file">>             \* the file does not exist
NoIndex == <<"None">>               \* MemorySearchEngine._index is None

\* a collaborator call may raise while the budget of failures lasts
MayFail == failures < MaxFailures

\* the outcome of an awaited collaborator call: it returns (TRUE) or raises
Outcomes == IF MayFail THEN {TRUE, FALSE} ELSE {TRUE}

Failed(ok) == IF ok THEN failures ELSE failures + 1

(***************************************************************************)
(* asyncio.Lock: acquire() takes a free lock at once when nobody waits,    *)
(* otherwise the caller queues; release() frees it for the first waiter.   *)
(***************************************************************************)
\* fault: one lock for all keys
OneLockForAll(k, p) ==
    /\ \A j \in Keys : chat_locks[j].holder = Free
    /\ \/ chat_locks[k].waiters = <<>>
       \/ Head(chat_locks[k].waiters) = p

\* fault: a lock that excludes nobody
LockIgnored(k, p) == TRUE

LockAvailable(k, p) ==
    /\ chat_locks[k].holder = Free
    /\ \/ chat_locks[k].waiters = <<>>
       \/ Head(chat_locks[k].waiters) = p

\* fault: a critical section entered without taking the lock
NeverHeld(k, p) == chat_locks

Acquired(k, p) ==
    [chat_locks EXCEPT ![k] = [holder |-> p,
                               waiters |-> IF @.waiters # <<>> /\ Head(@.waiters) = p
                                           THEN Tail(@.waiters) ELSE @.waiters]]

Queued(k, p) ==
    [chat_locks EXCEPT ![k].waiters = Append(@, p)]

\* fault: a lock that is kept when its critical section is left
NotReleased(k) == chat_locks

Released(k) ==
    [chat_locks EXCEPT ![k].holder = Free]

\* the rotation that holds k's lock, if any: the reaper is inside _rotate_session(k)
RotationSteps == {"curate", "get_session", "flush", "delete_session", "create_session"}

Rotating(k) ==
    /\ reaper.pc \in RotationSteps
    /\ Head(reaper.idle_chats) = k

(***************************************************************************)
(* Init: the Dispatcher and the MessageQueue after __init__.               *)
(***************************************************************************)
Init ==
    /\ queues = [l \in Lanes |-> <<>>]
    /\ sessions = [k \in Keys |-> NoSession]
    /\ last_activity = [k \in Keys |-> NoTime]
    /\ activity_order = <<>>
    /\ chat_locks = [k \in Keys |-> [holder |-> Free, waiters |-> <<>>]]
    /\ worker = [l \in Lanes |-> IdleWorker]
    /\ reaper = SleepingReaper
    /\ now = 0
    /\ store = {}
    /\ counter = 0
    /\ deleted = [s \in SessionIds |-> 0]
    /\ replaced = {}
    /\ installed = [k \in Keys |-> NoSession]
    /\ enqueued = 0
    /\ failures = 0
    /\ unfinished = [l \in Lanes |-> 0]
    /\ buffers = [k \in Keys |-> <<>>]
    /\ timers = [k \in Keys |-> NoTimer]
    /\ tasks = [t \in 1..MaxPushes |-> NoTask]
    /\ pushlog = <<>>
    /\ delivered = <<>>
    /\ main = "running"
    /\ memory = {}
    /\ chunks = {}
    /\ vec_chunks = {}
    /\ autoincrement = 0
    /\ call = NoCall
    /\ files = [f \in FileNames |-> NoFile]
    /\ engine = [chunks |-> <<>>, index |-> NoIndex, vector_enabled |-> FALSE]
    /\ dirty = TRUE
    /\ persisted_event_ids = {}

(***************************************************************************)
(* The environment: the clock, and the producers of WorkItems.             *)
(***************************************************************************)
Tick ==
    /\ now < MaxTime
    /\ now' = now + 1
    /\ UNCHANGED <<queues, sessions, last_activity, activity_order, chat_locks,
                   worker, reaper, store, counter, deleted, replaced, installed,
                   enqueued, failures>>
    /\ UNCHANGED <<unfinished, qvars, mvars, svars>>

\* asyncio.Queue.put: one more unfinished task on the lane
Put(l) == [unfinished EXCEPT ![l] = @ + 1]

\* _worker: finally queue.task_done()
TaskDone(l) == [unfinished EXCEPT ![l] = @ - 1]

\* fault: a worker that ends with the exception of _process
StoppedOnError(ok) == IF ok THEN IdleWorker ELSE [IdleWorker EXCEPT !.pc = "stopped"]

\* _worker: _process has returned or raised (caught and logged); on to the
\* next queue.get()
AfterProcess(ok) == IdleWorker

\* enqueue_chat(chat_id, messages)
EnqueueChat(k) ==
    /\ enqueued < MaxItems
    /\ enqueued' = enqueued + 1
    /\ queues' = [queues EXCEPT !["chat"] =
                    Append(@, [chat_id |-> k, lane |-> "chat", id |-> enqueued + 1])]
    /\ UNCHANGED <<sessions, last_activity, activity_order, chat_locks, worker,
                   reaper, now, store, counter, deleted, replaced, installed,
                   failures>>
    /\ unfinished' = Put("chat")
    /\ UNCHANGED <<qvars, mvars, svars>>

\* enqueue_heartbeat(schedule, prompt): addressed to settings.admin_chat_id
EnqueueHeartbeat ==
    /\ enqueued < MaxItems
    /\ enqueued' = enqueued + 1
    /\ queues' = [queues EXCEPT !["heartbeat"] =
                    Append(@, [chat_id |-> AdminChat, lane |-> "heartbeat",
                               id |-> enqueued + 1])]
    /\ UNCHANGED <<sessions, last_activity, activity_order, chat_locks, worker,
                   reaper, now, store, counter, deleted, replaced, installed,
                   failures>>
    /\ unfinished' = Put("heartbeat")
    /\ UNCHANGED <<qvars, mvars, svars>>

(***************************************************************************)
(* _process, from the acquisition of the key's lock to its first await:    *)
(* the activity timestamp is set, then the session is looked up; a key     *)
(* without session awaits create_session, otherwise run_async is started   *)
(* with the session id read from _sessions.                                *)
(***************************************************************************)
Touched(k) == [last_activity EXCEPT ![k] = now]

TouchedOrder(k) ==
    IF k \in Range(activity_order) THEN activity_order ELSE Append(activity_order, k)

\* fault: a session created for every item, without the look at _sessions
EnteredCreating(l, it, pre) ==
    [pc |-> "create_session", item |-> it, session_id |-> NoSession,
     response |-> "", waited_on |-> pre]

Entered(l, it, pre) ==
    IF sessions[it.chat_id] = NoSession
    THEN [pc |-> "create_session", item |-> it, session_id |-> NoSession,
          response |-> "", waited_on |-> pre]
    ELSE [pc |-> "run_async", item |-> it, session_id |-> sessions[it.chat_id],
          response |-> "", waited_on |-> pre]

\* fault: a worker that takes the newest item of its lane
NewestItem(l) == queues[l][Len(queues[l])]

\* _worker: queue.get() of an asyncio.Queue gives the oldest item
NextItem(l) == Head(queues[l])

\* _worker: item = await queue.get(); await self._process(item) up to its first await
Dequeue(l) ==
    /\ worker[l].pc = "get"
    /\ queues[l] # <<>>
    /\ LET it == NextItem(l)
           k == it.chat_id
       IN /\ queues' = [queues EXCEPT ![l] = Tail(@)]
          /\ IF LockAvailable(k, l)
             THEN /\ chat_locks' = Acquired(k, l)
                  /\ last_activity' = Touched(k)
                  /\ activity_order' = TouchedOrder(k)
                  /\ worker' = [worker EXCEPT ![l] = Entered(l, it, NoSession)]
             ELSE /\ chat_locks' = Queued(k, l)
                  /\ worker' = [worker EXCEPT ![l] =
                        [pc |-> "lock", item |-> it, session_id |-> NoSession,
                         response |-> "",
                         waited_on |-> IF Rotating(k) THEN reaper.session_id
                                       ELSE NoSession]]
                  /\ UNCHANGED <<last_activity, activity_order>>
    /\ UNCHANGED <<sessions, reaper, now, store, counter, deleted, replaced,
                   installed, enqueued, failures>>
    /\ UNCHANGED <<unfinished, qvars, mvars, svars>>

\* _process: the lock is handed to the waiting worker
ProcessAcquire(l) ==
    /\ worker[l].pc = "lock"
    /\ LET it == worker[l].item
           k == it.chat_id
       IN /\ LockAvailable(k, l)
          /\ chat_locks' = Acquired(k, l)
          /\ last_activity' = Touched(k)
          /\ activity_order' = TouchedOrder(k)
          /\ worker' = [worker EXCEPT ![l] = Entered(l, it, worker[l].waited_on)]
    /\ UNCHANGED <<queues, sessions, reaper, now, store, counter, deleted,
                   replaced, installed, enqueued, failures>>
    /\ UNCHANGED <<unfinished, qvars, mvars, svars>>

\* _process: create_session returns (the id is stored and run_async is started
\* with it) or raises (the lock is released, _worker logs, task_done())
ProcessCreateSession(l) ==
    /\ worker[l].pc = "create_session"
    /\ LET k == worker[l].item.chat_id
       IN \E ok \in Outcomes :
            /\ failures' = Failed(ok)
            /\ IF ok
               THEN /\ counter' = counter + 1
                    /\ store' = store \cup {counter + 1}
                    /\ sessions' = [sessions EXCEPT ![k] = counter + 1]
                    /\ worker' = [worker EXCEPT ![l].pc = "run_async",
                                                ![l].session_id = counter + 1]
                    /\ UNCHANGED <<chat_locks, unfinished>>
               ELSE /\ chat_locks' = Released(k)
                    /\ worker' = [worker EXCEPT ![l] = AfterProcess(ok)]
                    /\ unfinished' = TaskDone(l)
                    /\ UNCHANGED <<counter, store, sessions>>
    /\ UNCHANGED <<queues, last_activity, activity_order, reaper, now, deleted,
                   replaced, installed, enqueued>>
    /\ UNCHANGED <<qvars, mvars, svars>>

\* the reply built from response_parts: the text parts of the events that
\* run_async yielded, and, when it raised, the apology appended to them
Apology == "Sorry, I encountered an error processing your message."

Responses(ok) ==
    IF ok THEN {"text", ""} ELSE {Apology, "text" \o "\n" \o Apology}

\* _process: run_async is exhausted or raises; a non-empty reply is sent
ProcessRunAsync(l) ==
    /\ worker[l].pc = "run_async"
    /\ LET k == worker[l].item.chat_id
       IN \E ok \in Outcomes : \E r \in Responses(ok) :
            /\ failures' = Failed(ok)
            /\ IF r # ""
               THEN /\ worker' = [worker EXCEPT ![l].pc = "send_reply",
                                                ![l].response = r]
                    /\ UNCHANGED <<chat_locks, unfinished>>
               ELSE /\ chat_locks' = Released(k)
                    /\ worker' = [worker EXCEPT ![l] = AfterProcess(TRUE)]
                    /\ unfinished' = TaskDone(l)
    /\ UNCHANGED <<queues, sessions, last_activity, activity_order, reaper, now,
                   store, counter, deleted, replaced, installed, enqueued>>
    /\ UNCHANGED <<qvars, mvars, svars>>

\* _process: send_reply returns or raises; either way the lock is released
ProcessSendReply(l) ==
    /\ worker[l].pc = "send_reply"
    /\ \E ok \in Outcomes :
         /\ failures' = Failed(ok)
         /\ chat_locks' = Released(worker[l].item.chat_id)
         /\ worker' = [worker EXCEPT ![l] = AfterProcess(ok)]
         /\ unfinished' = TaskDone(l)
    /\ UNCHANGED <<queues, sessions, last_activity, activity_order, reaper, now,
                   store, counter, deleted, replaced, installed, enqueued>>
    /\ UNCHANGED <<qvars, mvars, svars>>

(***************************************************************************)
(* _session_reaper: after each sleep, the keys whose idle time has reached *)
(* the timeout and that have a session, in the order of the dict.          *)
(***************************************************************************)
IdleAt(k, t) ==
    /\ last_activity[k] # NoTime
    /\ (t - last_activity[k]) >= IdleTimeout

IdleChats ==
    SelectKeys(activity_order, {k \in Keys : IdleAt(k, now) /\ sessions[k] # NoSession})

ReaperScan ==
    /\ reaper.pc = "sleep"
    /\ reaper' = IF IdleChats = <<>> THEN SleepingReaper
                 ELSE [SleepingReaper EXCEPT !.pc = "rotate", !.idle_chats = IdleChats]
    /\ UNCHANGED <<queues, sessions, last_activity, activity_order, chat_locks,
                   worker, now, store, counter, deleted, replaced, installed,
                   enqueued, failures>>
    /\ UNCHANGED <<unfinished, qvars, mvars, svars>>

(***************************************************************************)
(* _rotate_session, from the acquisition of the lock to its first await:   *)
(* the re-check of the idle time (a missing timestamp reads as now), then  *)
(* the lookup of the session.                                              *)
(***************************************************************************)
\* fault: a rotation that does not look at the timestamp again
NotRechecked(k) == TRUE

StillIdle(k) ==
    LET last == IF last_activity[k] = NoTime THEN now ELSE last_activity[k]
    IN  ~((now - last) < IdleTimeout)

FirstRotationStep == IF CuratorConfigured THEN "curate" ELSE "get_session"

\* the reaper with the lock of k in hand; a return before the first await
\* releases the lock in the same step
RotateEnter(k) ==
    IF ~StillIdle(k)
    THEN /\ reaper' = [reaper EXCEPT !.pc = "returned", !.outcome = "skipped"]
         /\ chat_locks' = [Acquired(k, "reaper") EXCEPT ![k].holder = Free]
         /\ UNCHANGED installed
    ELSE IF sessions[k] = NoSession
    THEN /\ reaper' = [reaper EXCEPT !.pc = "returned", !.outcome = "no_session"]
         /\ chat_locks' = [Acquired(k, "reaper") EXCEPT ![k].holder = Free]
         /\ UNCHANGED installed
    ELSE /\ reaper' = [reaper EXCEPT !.pc = FirstRotationStep,
                                     !.session_id = sessions[k]]
         /\ chat_locks' = Acquired(k, "reaper")
         /\ installed' = [installed EXCEPT ![k] = NoSession]

\* _session_reaper: await self._rotate_session(chat_id) for the next idle chat
ReaperRotate ==
    /\ reaper.pc = "rotate"
    /\ LET k == Head(reaper.idle_chats)
       IN IF LockAvailable(k, "reaper")
          THEN RotateEnter(k)
          ELSE /\ chat_locks' = Queued(k, "reaper")
               /\ reaper' = [reaper EXCEPT !.pc = "lock", !.waited = TRUE]
               /\ UNCHANGED installed
    /\ UNCHANGED <<queues, sessions, last_activity, activity_order, worker, now,
                   store, counter, deleted, replaced, enqueued, failures>>
    /\ UNCHANGED <<unfinished, qvars, mvars, svars>>

\* _rotate_session: the lock is handed to the waiting reaper
RotateAcquire ==
    /\ reaper.pc = "lock"
    /\ LockAvailable(Head(reaper.idle_chats), "reaper")
    /\ RotateEnter(Head(reaper.idle_chats))
    /\ UNCHANGED <<queues, sessions, last_activity, activity_order, worker, now,
                   store, counter, deleted, replaced, enqueued, failures>>
    /\ UNCHANGED <<unfinished, qvars, mvars, svars>>

(***************************************************************************)
(* _rotate_session, the four steps.  Each of the first three is wrapped in *)
(* try/except Exception: whether the call returns or raises, the next step *)
(* follows.  create_session is not wrapped: when it raises, the exception  *)
(* leaves _rotate_session (releasing the lock) and the reaper logs it.     *)
(***************************************************************************)
Logged(step, ok) ==
    Append(reaper.log, [step |-> step, session_id |-> reaper.session_id, ok |-> ok])

\* fault: an exception of the curator that leaves _rotate_session
CurateUncaught(ok) == IF ok THEN "get_session" ELSE "returned"

\* 1. the curator runs against the session; its events are consumed
AfterCurate(ok) == "get_session"

RotateCurate ==
    /\ reaper.pc = "curate"
    /\ \E ok \in Outcomes :
         /\ failures' = Failed(ok)
         /\ reaper' = [reaper EXCEPT !.pc = AfterCurate(ok),
                                     !.log = Logged("curate", ok)]
    /\ UNCHANGED <<queues, sessions, last_activity, activity_order, chat_locks,
                   worker, now, store, counter, deleted, replaced, installed,
                   enqueued>>
    /\ UNCHANGED <<unfinished, qvars, mvars, svars>>

\* 2. get_session returns the session (or None for an id the store does not
\* hold) or raises; only a session found is flushed
AfterGetSession(ok) ==
    IF ok /\ reaper.session_id \in store THEN "flush" ELSE "delete_session"

RotateGetSession ==
    /\ reaper.pc = "get_session"
    /\ \E ok \in Outcomes :
         /\ failures' = Failed(ok)
         /\ reaper' = [reaper EXCEPT !.pc = AfterGetSession(ok),
                                     !.log = Logged("get_session", ok)]
    /\ UNCHANGED <<queues, sessions, last_activity, activity_order, chat_locks,
                   worker, now, store, counter, deleted, replaced, installed,
                   enqueued>>
    /\ UNCHANGED <<unfinished, qvars, mvars, svars>>

AfterFlush(ok) == "delete_session"

RotateFlush ==
    /\ reaper.pc = "flush"
    /\ \E ok \in Outcomes :
         /\ failures' = Failed(ok)
         /\ reaper' = [reaper EXCEPT !.pc = AfterFlush(ok),
                                     !.log = Logged("flush", ok)]
    /\ UNCHANGED <<queues, sessions, last_activity, activity_order, chat_locks,
                   worker, now, store, counter, deleted, replaced, installed,
                   enqueued>>
    /\ UNCHANGED <<unfinished, qvars, mvars, svars>>

\* 3. delete_session is called for the old id; it removes the session or raises
AfterDelete(ok) == "create_session"

RotateDelete ==
    /\ reaper.pc = "delete_session"
    /\ \E ok \in Outcomes :
         /\ failures' = Failed(ok)
         /\ deleted' = [deleted EXCEPT ![reaper.session_id] = @ + 1]
         /\ store' = IF ok THEN store \ {reaper.session_id} ELSE store
         /\ reaper' = [reaper EXCEPT !.pc = AfterDelete(ok),
                                     !.log = Logged("delete_session", ok)]
    /\ UNCHANGED <<queues, sessions, last_activity, activity_order, chat_locks,
                   worker, now, counter, replaced, installed, enqueued>>
    /\ UNCHANGED <<unfinished, qvars, mvars, svars>>

\* fault: a rotation that leaves the activity timestamp of its key
Remembered(k) == last_activity

\* del self._last_activity[chat_id]
Forgotten(k) == [last_activity EXCEPT ![k] = NoTime]

\* 4. create_session: the new id is installed and the activity entry deleted,
\* or the exception leaves _rotate_session with both maps as they were
RotateCreate ==
    /\ reaper.pc = "create_session"
    /\ LET k == Head(reaper.idle_chats)
       IN \E ok \in Outcomes :
            /\ failures' = Failed(ok)
            /\ chat_locks' = Released(k)
            /\ reaper' = [reaper EXCEPT !.pc = "returned",
                                        !.outcome = IF ok THEN "rotated" ELSE "raised",
                                        !.log = Logged("create_session", ok)]
            /\ IF ok
               THEN /\ counter' = counter + 1
                    /\ store' = store \cup {counter + 1}
                    /\ sessions' = [sessions EXCEPT ![k] = counter + 1]
                    /\ last_activity' = Forgotten(k)
                    /\ activity_order' = SelectKeys(activity_order, Keys \ {k})
                    /\ replaced' = replaced \cup {reaper.session_id}
                    /\ installed' = [installed EXCEPT ![k] = counter + 1]
               ELSE UNCHANGED <<counter, store, sessions, last_activity,
                                activity_order, replaced, installed>>
    /\ UNCHANGED <<queues, worker, now, deleted, enqueued>>
    /\ UNCHANGED <<unfinished, qvars, mvars, svars>>

\* fault: an exception of _rotate_session that ends the reaper
ReaperEnded ==
    IF reaper.outcome = "raised" THEN [reaper EXCEPT !.pc = "ended"]
    ELSE IF Tail(reaper.idle_chats) = <<>> THEN SleepingReaper
    ELSE [SleepingReaper EXCEPT !.pc = "rotate",
                                !.idle_chats = Tail(reaper.idle_chats)]

\* _session_reaper: _rotate_session has returned or raised (logged); on to the
\* next idle chat, or back to sleep
\* (raised: the chats of this scan for which an exception was logged)
AfterRotation ==
    IF Tail(reaper.idle_chats) = <<>> THEN SleepingReaper
    ELSE [SleepingReaper EXCEPT
            !.pc = "rotate",
            !.idle_chats = Tail(reaper.idle_chats),
            !.raised = IF reaper.outcome = "raised"
                       THEN reaper.raised \cup {Head(reaper.idle_chats)}
                       ELSE reaper.raised]

ReaperNext ==
    /\ reaper.pc = "returned"
    /\ reaper' = AfterRotation
    /\ UNCHANGED <<queues, sessions, last_activity, activity_order, chat_locks,
                   worker, now, store, counter, deleted, replaced, installed,
                   enqueued, failures>>
    /\ UNCHANGED <<unfinished, qvars, mvars, svars>>

(***************************************************************************)
(* The dispatcher: run() gathers the two lane workers and the reaper.      *)
(***************************************************************************)
Worker(l) ==
    \/ Dequeue(l)
    \/ ProcessAcquire(l)
    \/ ProcessCreateSession(l)
    \/ ProcessRunAsync(l)
    \/ ProcessSendReply(l)

Reaper ==
    \/ ReaperScan
    \/ ReaperRotate
    \/ RotateAcquire
    \/ RotateCurate
    \/ RotateGetSession
    \/ RotateFlush
    \/ RotateDelete
    \/ RotateCreate
    \/ ReaperNext

Next ==
    \/ Tick
    \/ \E k \in Keys : EnqueueChat(k)
    \/ EnqueueHeartbeat
    \/ \E l \in Lanes : Worker(l)
    \/ Reaper

Spec == Init /\ [][Next]_vars

TypeOK ==
    /\ counter \in 0..(2 * MaxItems)
    /\ store \subseteq SessionIds
    /\ \A k \in Keys : sessions[k] \in SessionIds \cup {NoSession}
    /\ failures \in 0..MaxFailures
    /\ now \in 0..MaxTime

(***************************************************************************)
(* Properties of the dispatcher.                                           *)
(***************************************************************************)
\* the lane worker l is inside the locked section of _process for key k
InProcess(l, k) ==
    /\ worker[l].pc \in {"create_session", "run_async", "send_reply"}
    /\ worker[l].item.chat_id = k

\* the coroutines inside a critical section of key k
CriticalSections(k) ==
    {l \in Lanes : InProcess(l, k)} \cup (IF Rotating(k) THEN {"reaper"} ELSE {})

\* C1: for every key, at most one of the chat-lane worker, the heartbeat-lane
\* worker and the rotation is inside its critical section for that key; so at
\* most one agent or curator invocation is in flight per key.
C1_MutualExclusion ==
    \A k \in Keys : Cardinality(CriticalSections(k)) <= 1

\* one coroutine is inside the critical section of a key while the other two
\* wait for that key's lock
C1_Witness ==
    \E k \in Keys :
        /\ Cardinality(CriticalSections(k)) = 1
        /\ Len(chat_locks[k].waiters) = 2

\* C2: an item whose processing started to wait while a rotation held the
\* key's lock reaches the agent only after that rotation, with the session id
\* the rotation installed, and never with the pre-rotation id.
C2_WaiterRunsOnInstalledSession ==
    \A l \in Lanes :
        (worker[l].pc = "run_async" /\ worker[l].waited_on # NoSession) =>
            LET k == worker[l].item.chat_id
            IN  /\ ~Rotating(k)
                /\ worker[l].session_id = installed[k]
                /\ worker[l].session_id # worker[l].waited_on

\* C3: every agent invocation of a WorkItem runs on a session id the session
\* store holds at that moment, and no rotation is working on that key.
C3_AgentRunsOnLiveSession ==
    \A l \in Lanes :
        worker[l].pc = "run_async" =>
            /\ worker[l].session_id \in store
            /\ ~Rotating(worker[l].item.chat_id)

\* C4: a rotation that acquires the lock while the key's idle time is below the
\* timeout returns at once: no curation, no flush, no deletion, no creation,
\* and the key's session id and activity timestamp stay as they were.
C4_ActiveKeyIsNotRotated ==
    [][\A k \in Keys :
         ( /\ reaper.pc \in {"rotate", "lock"}
           /\ Head(reaper.idle_chats) = k
           /\ reaper'.pc \notin {"rotate", "lock"}
           /\ last_activity[k] # NoTime
           /\ (now - last_activity[k]) < IdleTimeout )
         => ( /\ reaper'.pc = "returned"
              /\ reaper'.log = <<>>
              /\ chat_locks'[k].holder = Free
              /\ UNCHANGED <<sessions, last_activity, activity_order, store,
                             counter, deleted, replaced>> )]_vars

\* a rotation has returned without acting for a key the scan had found idle and
\* that became active again before the rotation got the lock
C4_Witness ==
    /\ reaper.pc = "returned"
    /\ reaper.outcome = "skipped"
    /\ reaper.log = <<>>
    /\ reaper.waited
    /\ last_activity[Head(reaper.idle_chats)] = now
    /\ sessions[Head(reaper.idle_chats)] \in store

\* C5: every rotation that ran left its key on another session id than before,
\* and every replaced session id is in the record of delete_session calls
\* exactly once.
C5_ReplacedDeletedOnce ==
    /\ \A s \in replaced : deleted[s] = 1
    /\ (reaper.pc = "returned" /\ reaper.session_id # NoSession) =>
           sessions[Head(reaper.idle_chats)] # reaper.session_id

StepNames(log) == [i \in 1..Len(log) |-> log[i].step]

IsPrefix(s, t) == Len(s) <= Len(t) /\ \A i \in 1..Len(s) : s[i] = t[i]

\* the orders in which _rotate_session may make its calls (the flush is left
\* out when get_session gave no session)
RotationOrders ==
    { <<"curate", "get_session", "flush", "delete_session", "create_session">>,
      <<"curate", "get_session", "delete_session", "create_session">> }

\* C6: a rotation that passed the re-check makes its calls in the order
\* curate, get_session and flush, delete_session, create_session, all with the
\* old session id; an exception of one of the first three does not end it, and
\* when create_session returns the key maps to the session just created.
C6_RotationStepsInOrder ==
    /\ reaper.pc \in RotationSteps =>
         \E o \in RotationOrders :
            IsPrefix(StepNames(reaper.log) \o <<reaper.pc>>, o)
    /\ (reaper.pc = "returned" /\ reaper.session_id # NoSession) =>
         LET k == Head(reaper.idle_chats)
             n == Len(reaper.log)
         IN  /\ StepNames(reaper.log) \in RotationOrders
             /\ \A i \in 1..n : reaper.log[i].session_id = reaper.session_id
             /\ ("flush" \in Range(StepNames(reaper.log))) =>
                    reaper.log[2].ok
             /\ reaper.log[n].ok =>
                    /\ reaper.outcome = "rotated"
                    /\ sessions[k] # reaper.session_id
                    /\ sessions[k] \in store
                    /\ installed[k] = sessions[k]

\* a rotation has installed a new session although one of curation, flush and
\* deletion raised
C6_Witness ==
    /\ reaper.pc = "returned"
    /\ reaper.outcome = "rotated"
    /\ \E i \in 1..Len(reaper.log) :
          /\ reaper.log[i].step \in {"curate", "flush", "delete_session"}
          /\ ~reaper.log[i].ok
    /\ sessions[Head(reaper.idle_chats)] # reaper.session_id

(***************************************************************************)
(* Scheduling.  The event loop runs every coroutine that can go on, every  *)
(* collaborator call returns or raises, the clock advances, and            *)
(* asyncio.Lock hands the lock to its waiters first come, first served.    *)
(* Nothing is assumed of the producers of WorkItems.  LiveSpec is the      *)
(* dispatcher with the chat lane alone feeding it.                         *)
(***************************************************************************)
LiveNext ==
    \/ Tick
    \/ \E k \in Keys : EnqueueChat(k)
    \/ Worker("chat")
    \/ Reaper

LiveSpec ==
    /\ Init
    /\ [][LiveNext]_vars
    /\ WF_vars(Tick)
    /\ WF_vars(Worker("chat"))
    /\ WF_vars(Reaper)

\* the timestamps from which the idle timeout can elapse within the clock's range
RotatableTimes == 0..(MaxTime - IdleTimeout)

\* C7: a key with a session and an activity timestamp is eventually rotated
\* (its rotation passes the re-check and runs) unless a WorkItem processed so
\* late that the timeout cannot elapse any more refreshes the timestamp; so
\* also when the rotation of another key raised in the same or an earlier scan.
C7_IdleKeyEventuallyRotated ==
    \A k \in Keys :
        (sessions[k] # NoSession /\ last_activity[k] \in RotatableTimes)
            ~> (Rotating(k) \/ last_activity[k] \notin RotatableTimes)

\* the rotation of a key runs after the rotation of another key raised in the
\* same scan
C7_Witness ==
    \E k \in Keys :
        /\ Rotating(k)
        /\ reaper.raised # {}
        /\ k \notin reaper.raised

(***************************************************************************)
(* The MessageQueue.  push and the drain of _debounce_fire each run under  *)
(* the key's lock without an await inside, so each is one uninterrupted    *)
(* run: the locks of the MessageQueue are free in every state and are not  *)
(* variables of the model.  A task created by push sleeps the debounce     *)
(* duration; asyncio resumes it at its deadline or later.                  *)
(***************************************************************************)
\* QueuedMessage(chat_id, text, user_name): id stands for the text and the sender
Message(k, n) == [chat_id |-> k, id |-> n]

\* fault: one buffer for all keys
BufferedForAll(k, m) == [j \in Keys |-> Append(buffers[j], m)]

\* push: self._buffers[chat_id].append(...), the buffer created when missing
Buffered(k, m) == [buffers EXCEPT ![k] = Append(@, m)]

CancelledTask(k) == [chat_id |-> k, pc |-> "cancelled", deadline |-> 0, messages |-> <<>>]

\* fault: a push that leaves the pending timer running
NotCancelled(k) == tasks

\* push: the pending timer of the key, if any, is cancelled
Cancelled(k) ==
    IF timers[k] # NoTimer THEN [tasks EXCEPT ![timers[k]] = CancelledTask(k)]
    ELSE tasks

\* fault: a window that is fixed by the first push of a burst
ArmedOnce(k) ==
    [chat_id |-> k, pc |-> "sleep",
     deadline |-> IF timers[k] # NoTimer THEN tasks[timers[k]].deadline
                  ELSE now + Debounce,
     messages |-> <<>>]

\* push: asyncio.create_task(self._debounce_fire(chat_id)), which starts with
\* asyncio.sleep(self._debounce)
Armed(k) == [chat_id |-> k, pc |-> "sleep", deadline |-> now + Debounce, messages |-> <<>>]

\* push(chat_id, text, user_name); messages are pushed while their timer can
\* still elapse within the clock's range
Push(k) ==
    /\ Len(pushlog) < MaxPushes
    /\ now + Debounce <= MaxQueueTime
    /\ LET n == Len(pushlog) + 1
       IN /\ buffers' = Buffered(k, Message(k, n))
          /\ tasks' = [Cancelled(k) EXCEPT ![n] = Armed(k)]
          /\ timers' = [timers EXCEPT ![k] = n]
          /\ pushlog' = Append(pushlog, [chat_id |-> k, id |-> n, at |-> now])
    /\ UNCHANGED <<delivered, now, dvars, mvars, svars>>

\* fault: a drain that reads the buffer and leaves it in place
NotDrained(k) == buffers

\* _debounce_fire: messages = self._buffers.pop(chat_id, [])
Drained(k) == [buffers EXCEPT ![k] = <<>>]

\* _debounce_fire: self._timers.pop(chat_id, None)
Disarmed(k) == [timers EXCEPT ![k] = NoTimer]

\* _debounce_fire after its sleep: the drain, then on_batch is called with a
\* non-empty batch
DebounceFire(t) ==
    /\ tasks[t].pc = "sleep"
    /\ now >= tasks[t].deadline
    /\ LET k == tasks[t].chat_id
           messages == buffers[k]
       IN /\ buffers' = Drained(k)
          /\ timers' = Disarmed(k)
          /\ IF messages # <<>>
             THEN /\ tasks' = [tasks EXCEPT ![t].pc = "callback",
                                            ![t].messages = messages]
                  /\ delivered' = Append(delivered,
                        [chat_id |-> k, messages |-> messages, task |-> t,
                         upto |-> Len(pushlog)])
             ELSE /\ tasks' = [tasks EXCEPT ![t].pc = "done"]
                  /\ UNCHANGED delivered
    /\ UNCHANGED <<pushlog, now, dvars, mvars, svars>>

\* fault: an exception of on_batch that leaves the task
CallbackUncaught(ok) == IF ok THEN "done" ELSE "raised"

\* _debounce_fire: the task ends after on_batch returned, or after the
\* exception of on_batch was caught and logged
AfterCallback(ok) == IF ok THEN "done" ELSE "logged"

\* _debounce_fire: on_batch returns, or raises and the exception is logged
CallbackReturn(t) ==
    /\ tasks[t].pc = "callback"
    /\ \E ok \in BOOLEAN :
         tasks' = [tasks EXCEPT ![t] = [chat_id |-> tasks[t].chat_id,
                                        pc |-> AfterCallback(ok),
                                        deadline |-> 0, messages |-> <<>>]]
    /\ UNCHANGED <<buffers, timers, pushlog, delivered, now, dvars, mvars, svars>>

QueueTick ==
    /\ now < MaxQueueTime
    /\ now' = now + 1
    /\ UNCHANGED <<dvars, qvars, mvars, svars>>

QueueNext ==
    \/ QueueTick
    \/ \E k \in Keys : Push(k)
    \/ \E t \in 1..MaxPushes : DebounceFire(t)
    \/ \E t \in 1..MaxPushes : CallbackReturn(t)

SpecQueue == Init /\ [][QueueNext]_vars

\* the event loop keeps running: time passes and a task whose sleep is over
\* is resumed
LiveSpecQueue ==
    /\ Init
    /\ [][QueueNext]_vars
    /\ WF_vars(QueueTick)
    /\ \A t \in 1..MaxPushes : WF_vars(DebounceFire(t))

(***************************************************************************)
(* Properties of the MessageQueue.                                         *)
(***************************************************************************)
\* the pushes made to key k, in push order
PushesOf(k) == SelectSeq(pushlog, LAMBDA e : e.chat_id = k)

\* the batch (its place in delivered) that holds the message of push n, 0 for none
BatchOf(n) ==
    LET S == {i \in 1..Len(delivered) :
                \E j \in 1..Len(delivered[i].messages) : delivered[i].messages[j].id = n}
    IN  IF S = {} THEN 0 ELSE CHOOSE i \in S : \A j \in S : i <= j

RECURSIVE Flatten(_)
Flatten(bs) == IF bs = <<>> THEN <<>> ELSE Head(bs).messages \o Flatten(Tail(bs))

\* the messages delivered for key k so far, batch after batch
DeliveredOf(k) == Flatten(SelectSeq(delivered, LAMBDA b : b.chat_id = k))

\* two pushes to one key less than the debounce duration apart end up in the
\* same batch
Coalesced ==
    \A k \in Keys :
        LET P == PushesOf(k)
        IN  \A i \in 1..(Len(P) - 1) :
                (P[i + 1].at - P[i].at < Debounce /\ BatchOf(P[i].id) # 0) =>
                    BatchOf(P[i + 1].id) = BatchOf(P[i].id)

\* the batches of a key, one after the other, are the messages pushed to the
\* key, in push order, each once
InPushOrder ==
    \A k \in Keys :
        LET P == PushesOf(k)
            D == DeliveredOf(k)
        IN  /\ Len(D) <= Len(P)
            /\ \A i \in 1..Len(D) : D[i] = Message(k, P[i].id)

\* a batch holds no two messages pushed the debounce duration or more apart
OnlyOneBurst ==
    \A b \in 1..Len(delivered) :
        \A j \in 1..(Len(delivered[b].messages) - 1) :
            pushlog[delivered[b].messages[j + 1].id].at
              - pushlog[delivered[b].messages[j].id].at < Debounce

SameKeyBatches ==
    \A b \in 1..Len(delivered) :
        \A j \in 1..Len(delivered[b].messages) :
            /\ delivered[b].messages[j].chat_id = delivered[b].chat_id
            /\ pushlog[delivered[b].messages[j].id].chat_id = delivered[b].chat_id

\* the step is a push to key k
IsPush(k) ==
    /\ Len(pushlog') = Len(pushlog) + 1
    /\ pushlog'[Len(pushlog')].chat_id = k

\* a push to key k leaves the buffer, the timer entry and the timer tasks of
\* every other key as they were
OtherKeysUntouched(k) ==
    \A j \in Keys \ {k} :
        /\ buffers'[j] = buffers[j]
        /\ timers'[j] = timers[j]
        /\ \A t \in 1..MaxPushes : tasks[t].chat_id = j => tasks'[t] = tasks[t]

\* C9: a batch delivered for key k holds only messages pushed with key k,
\* whatever the interleaving of pushes to distinct keys, and a push to one
\* key neither cancels nor delays the timer of another key.
C9_KeysAreIndependent ==
    /\ []SameKeyBatches
    /\ [][\A k \in Keys : IsPush(k) => OtherKeysUntouched(k)]_vars

\* pushes to two keys were interleaved and a batch was delivered for each key
C9_Witness ==
    /\ \E i, j, l \in 1..Len(pushlog) :
          /\ i < j /\ j < l
          /\ pushlog[i].chat_id = pushlog[l].chat_id
          /\ pushlog[i].chat_id # pushlog[j].chat_id
          /\ BatchOf(i) # 0 /\ BatchOf(j) # 0 /\ BatchOf(l) # 0
    /\ \E b, c \in 1..Len(delivered) : delivered[b].chat_id # delivered[c].chat_id

\* while on_batch runs for a batch of key k, the timer entry of k is not the
\* firing task, the buffer of k holds no message of the batch, and push is
\* not blocked
DrainedBeforeCallback ==
    \A t \in 1..MaxPushes :
        tasks[t].pc = "callback" =>
            LET k == tasks[t].chat_id
            IN  /\ timers[k] # t
                /\ (timers[k] = NoTimer) <=> (buffers[k] = <<>>)
                /\ \A i \in 1..Len(buffers[k]) :
                      \A j \in 1..Len(tasks[t].messages) :
                          buffers[k][i].id > tasks[t].messages[j].id
                /\ (Len(pushlog) < MaxPushes /\ now + Debounce <= MaxQueueTime)
                      => ENABLED Push(k)

\* push n was made to the key of batch b after the drain of batch b
PushedAfterDrain(n, b) ==
    /\ n <= Len(pushlog)
    /\ b <= Len(delivered)
    /\ delivered[b].chat_id = pushlog[n].chat_id
    /\ delivered[b].upto < n

\* a message pushed after the drain of a batch is in no batch or in a later one
InLaterBatch ==
    \A n \in 1..MaxPushes : \A b \in 1..MaxPushes :
        PushedAfterDrain(n, b) => (BatchOf(n) = 0 \/ BatchOf(n) > b)

\* C10: the buffer and the timer entry of a key are removed before the
\* callback is invoked; a message pushed to the key after the drain, also
\* while the callback still runs, is not in the batch under delivery, is not
\* blocked by the callback, and is delivered in a later batch.
C10_PushAfterDrainStartsNewBatch ==
    /\ [](DrainedBeforeCallback /\ InLaterBatch)
    /\ \A n \in 1..MaxPushes : \A b \in 1..MaxPushes :
          PushedAfterDrain(n, b) ~> (BatchOf(n) > b)

\* the callbacks of two batches of one key run at the same time: the later
\* batch was pushed and delivered while the earlier callback was running
C10_Witness ==
    \E t, u \in 1..MaxPushes :
        /\ t # u
        /\ tasks[t].pc = "callback" /\ tasks[u].pc = "callback"
        /\ tasks[t].chat_id = tasks[u].chat_id

\* the most recent push to key k, 0 for none
LastPushTo(k) ==
    LET S == {n \in 1..Len(pushlog) : pushlog[n].chat_id = k}
    IN  IF S = {} THEN 0 ELSE CHOOSE n \in S : \A m \in S : m <= n

\* a push to key k cancels the pending timer of k and arms a new one
Rearmed(k) ==
    /\ timers[k] # NoTimer => tasks'[timers[k]].pc = "cancelled"
    /\ timers'[k] = Len(pushlog')
    /\ tasks'[timers'[k]].pc = "sleep"
    /\ tasks'[timers'[k]].deadline = now + Debounce

\* the step hands a batch to on_batch
IsDelivery == Len(delivered') = Len(delivered) + 1

\* the batch of the step is that of the timer armed by the most recent push
\* to its key, a full debounce duration after that push
AfterFullWindow ==
    LET b == delivered'[Len(delivered')]
        n == LastPushTo(b.chat_id)
    IN  /\ b.task = n
        /\ b.messages[Len(b.messages)].id = n
        /\ now - pushlog[n].at >= Debounce

\* a cancelled timer stays cancelled and has delivered no batch
StaleTimersSilent ==
    \A t \in 1..MaxPushes :
        tasks[t].pc = "cancelled" =>
            /\ tasks'[t].pc = "cancelled"
            /\ \A b \in 1..Len(delivered') : delivered'[b].task # t

\* C11: the window slides: a push to key k cancels the pending timer of k and
\* arms a new one, a superseded timer never delivers a batch, and a batch of
\* k is delivered only a full debounce duration after the most recent push
\* to k.
C11_WindowSlides ==
    /\ [][\A k \in Keys : IsPush(k) => Rearmed(k)]_vars
    /\ [][StaleTimersSilent]_vars
    /\ [][IsDelivery => AfterFullWindow]_vars

\* a batch of two messages has been delivered by the timer of the second
\* push, the timer of the first push cancelled when its window was half over
C11_Witness ==
    \E b \in 1..Len(delivered) :
        /\ Len(delivered[b].messages) = 2
        /\ tasks[delivered[b].messages[1].id].pc = "cancelled"
        /\ delivered[b].task = delivered[b].messages[2].id
        /\ pushlog[delivered[b].messages[2].id].at
             = pushlog[delivered[b].messages[1].id].at + 1
        /\ now >= pushlog[delivered[b].messages[2].id].at + Debounce

\* the step ends the callback of task t
CallbackEnds(t) == tasks[t].pc = "callback" /\ tasks'[t].pc # "callback"

\* the end of a callback, by return or by exception, ends its task alone:
\* the exception is caught, and no buffer, no timer entry and no other task
\* changes
Confined(t) ==
    /\ tasks'[t].pc \in {"done", "logged"}
    /\ buffers' = buffers
    /\ timers' = timers
    /\ delivered' = delivered
    /\ \A u \in 1..MaxPushes \ {t} : tasks'[u] = tasks[u]

\* a key whose callback raised and that got no push since the drain of that
\* batch is idle: it has no buffer and no timer
IdleAfterFailure ==
    \A b \in 1..Len(delivered) :
        (tasks[delivered[b].task].pc = "logged"
           /\ LastPushTo(delivered[b].chat_id) <= delivered[b].upto) =>
            /\ buffers[delivered[b].chat_id] = <<>>
            /\ timers[delivered[b].chat_id] = NoTimer

\* push n was made to a key after the callback of an earlier batch of the key
\* had raised
PushedAfterFailure(n) ==
    /\ n <= Len(pushlog)
    /\ \E t \in 1..MaxPushes :
          /\ t < n
          /\ tasks[t].pc = "logged"
          /\ tasks[t].chat_id = pushlog[n].chat_id

\* C12: an exception of the batch callback is confined to its firing: it is
\* not propagated, the key is left without buffer and timer, the buffers and
\* timers of other keys are as they were, and later pushes to the key are
\* batched and delivered as usual.
C12_CallbackFailureConfined ==
    /\ [][\A t \in 1..MaxPushes : CallbackEnds(t) => Confined(t)]_vars
    /\ [](IdleAfterFailure /\ Coalesced /\ InPushOrder)
    /\ \A n \in 1..MaxPushes : PushedAfterFailure(n) ~> (BatchOf(n) # 0)

\* after the callback of a batch of a key raised, two later pushes to the key
\* were delivered together in a later batch
C12_Witness ==
    \E t \in 1..MaxPushes : \E b \in 1..Len(delivered) :
        /\ tasks[t].pc = "logged"
        /\ delivered[b].chat_id = tasks[t].chat_id
        /\ Len(delivered[b].messages) = 2
        /\ delivered[b].messages[1].id > t

(***************************************************************************)
(* Properties of the lanes.                                                *)
(***************************************************************************)
\* the items of a lane wait in the order of their enqueueing, behind the item
\* the worker of the lane has in hand
LaneInOrder(l) ==
    /\ \A i \in 1..Len(queues[l]) : \A j \in 1..Len(queues[l]) :
          i < j => queues[l][i].id < queues[l][j].id
    /\ worker[l].item # NoItem =>
          \A i \in 1..Len(queues[l]) : worker[l].item.id < queues[l][i].id

\* a worker takes an item only when it has none in hand, and then the oldest
\* of its lane; the item leaves the worker's hands only when its processing
\* is over
OneAtATime(l) ==
    /\ (worker[l].pc = "get") <=> (worker[l].item = NoItem)
    /\ worker'[l].item # worker[l].item =>
          \/ /\ worker[l].item = NoItem
             /\ queues[l] # <<>>
             /\ worker'[l].item = queues[l][1]
             /\ queues'[l] = Tail(queues[l])
          \/ /\ worker[l].item # NoItem
             /\ worker[l].pc \in {"create_session", "run_async", "send_reply"}
             /\ worker'[l] = IdleWorker
    /\ queues'[l] # queues[l] =>
          \/ /\ queues[l] # <<>>
             /\ queues'[l] = Tail(queues[l])
             /\ worker'[l].item = queues[l][1]
          \/ /\ Len(queues'[l]) = Len(queues[l]) + 1
             /\ queues'[l] = Append(queues[l], queues'[l][Len(queues'[l])])
             /\ queues'[l][Len(queues'[l])].id = enqueued + 1

\* C13: within a lane the WorkItems are processed one at a time and in the
\* order of their enqueueing: the processing of an item starts only when that
\* of the item enqueued before it on the lane is over.
C13_LaneIsFifo ==
    /\ [](\A l \in Lanes : LaneInOrder(l))
    /\ [][\A l \in Lanes : OneAtATime(l)]_vars

\* an item of a lane is being replied to while the item enqueued next waits
\* in the queue of the lane
C13_Witness ==
    \E l \in Lanes :
        /\ worker[l].pc = "send_reply"
        /\ queues[l] # <<>>
        /\ Head(queues[l]).id = worker[l].item.id + 1

\* the worker of lane l is busy with an item
Busy(l) == worker[l].pc # "get"

\* an item waits at the head of a lane only behind an item of its own key
HeadWaitsForSameKey ==
    \A l \in Lanes :
        (queues[l] # <<>> /\ Busy(l)) =>
            worker[l].item.chat_id = Head(queues[l]).chat_id

\* a dequeued item waits for the lock of its key only while a coroutine is
\* inside the critical section of that very key, or until the free lock is
\* handed over
LockWaitIsForSameKey ==
    \A l \in Lanes :
        worker[l].pc = "lock" =>
            LET k == worker[l].item.chat_id
            IN  \/ CriticalSections(k) # {}
                \/ chat_locks[k].holder = Free

\* the worker that takes an item starts to wait only when a coroutine is
\* inside the critical section of the item's key or waits for it
WaitStartsForSameKey ==
    \A l \in Lanes :
        (worker[l].pc = "get" /\ worker'[l].pc = "lock") =>
            LET k == worker'[l].item.chat_id
            IN  \/ CriticalSections(k) # {}
                \/ chat_locks[k].waiters # <<>>

\* an idle worker can take the head of its lane, whatever the other lane and
\* the reaper are doing
LaneNeverBlocked ==
    \A l \in Lanes :
        (queues[l] # <<>> /\ ~Busy(l)) => ENABLED Dequeue(l)

\* C14 (as stated): only work on the same key is serialized: an item for key
\* B never waits for an in-flight item or a rotation of another key A, and an
\* item of one lane never waits for an item of the other lane unless both
\* address the same key.
C14_OnlySameKeySerialized ==
    HeadWaitsForSameKey /\ LockWaitIsForSameKey /\ LaneNeverBlocked

\* C14 (amended): work is serialized per key and per lane: an item waits for
\* the items enqueued before it on its own lane, whatever their keys; once
\* taken by its worker it waits only for an in-flight item or a rotation of
\* its own key, never for one of another key, and never for the other lane
\* unless both items address the same key.
C14_SerializedPerKeyAndLane ==
    /\ [](LockWaitIsForSameKey /\ LaneNeverBlocked)
    /\ [][WaitStartsForSameKey]_vars

\* the two lanes are each running the agent at the same time, for two keys
C14_Witness ==
    /\ worker["chat"].pc = "run_async"
    /\ worker["heartbeat"].pc = "run_async"
    /\ worker["chat"].item.chat_id # worker["heartbeat"].item.chat_id

\* the step is one in which no collaborator call raises
Returning == failures' = failures

\* the dispatcher with collaborator calls that all return
ReturningNext ==
    \/ Tick
    \/ \E k \in Keys : EnqueueChat(k)
    \/ EnqueueHeartbeat
    \/ \E l \in Lanes : Worker(l) /\ Returning
    \/ Reaper /\ Returning

\* the event loop runs both lane workers and the reaper, and every
\* collaborator call returns
LiveSpecLanes ==
    /\ Init
    /\ [][ReturningNext]_vars
    /\ \A l \in Lanes : WF_vars(Worker(l) /\ Returning)
    /\ WF_vars(Reaper /\ Returning)

\* the items that wait on lane l or are in the hands of its worker
InLane(l) ==
    Range(queues[l]) \cup (IF worker[l].item # NoItem THEN {worker[l].item} ELSE {})

\* the ids of the WorkItems enqueued and not yet processed to the end
Pending == {it.id : it \in InLane("chat") \cup InLane("heartbeat")}

\* every pending item is on its own lane, once
OnOwnLaneOnce ==
    /\ \A l \in Lanes : \A it \in InLane(l) : it.lane = l /\ it.id \in 1..enqueued
    /\ \A l \in Lanes :
          Cardinality(InLane(l)) =
              Len(queues[l]) + (IF worker[l].item # NoItem THEN 1 ELSE 0)
    /\ \A l \in Lanes : Cardinality({it.id : it \in InLane(l)}) = Cardinality(InLane(l))
    /\ {it.id : it \in InLane("chat")} \cap {it.id : it \in InLane("heartbeat")} = {}

\* an item becomes pending by its enqueueing only, under the next id: an item
\* that was processed to the end does not come back
NeverAgain ==
    /\ Pending' \subseteq Pending \cup {enqueued + 1}
    /\ \A n \in Pending : n <= enqueued

\* C15: every WorkItem put on a lane is taken and processed once, by the
\* worker of that lane: none twice, none by the worker of the other lane,
\* and, the event loop being fair and the collaborator calls returning, none
\* stays unprocessed for ever: again and again no enqueued item is left.
C15_EveryItemProcessedOnce ==
    /\ []OnOwnLaneOnce
    /\ [][NeverAgain]_vars
    /\ []<>(Pending = {})

\* the last item that may be enqueued has been processed to the end, and so
\* have all the others
C15_Witness == enqueued = MaxItems /\ Pending = {} /\ counter > 0

\* the step is one in which a call awaited by _process for the item of lane
\* l raises and leaves _process: create_session or send_reply
ProcessRaises(l) ==
    /\ worker[l].pc \in {"create_session", "send_reply"}
    /\ worker'[l] # worker[l]
    /\ failures' = failures + 1

\* the exception ends the processing of the item and nothing else: the lock
\* of the key is released, the item is marked done, and the worker is back at
\* queue.get() with its lane as it was
WorkerGoesOn(l) ==
    /\ worker'[l] = IdleWorker
    /\ chat_locks'[worker[l].item.chat_id].holder = Free
    /\ unfinished'[l] = unfinished[l] - 1
    /\ queues' = queues
    /\ \A m \in Lanes \ {l} : worker'[m] = worker[m]

\* a lock is held only by a coroutine inside the critical section of its key
NoOrphanLock ==
    \A k \in Keys :
        chat_locks[k].holder # Free => chat_locks[k].holder \in CriticalSections(k)

\* the unfinished tasks of a lane are its items not yet processed to the end
MarkedDone ==
    \A l \in Lanes : unfinished[l] = Cardinality(InLane(l))

\* C16: an exception that leaves the processing of a WorkItem does not stop
\* the lane worker: the key's lock is released, the item is marked done, the
\* worker goes on with the next item of the lane, and a later item for the
\* same key can take the lock.
C16_WorkerSurvivesException ==
    /\ [][\A l \in Lanes : ProcessRaises(l) => WorkerGoesOn(l)]_vars
    /\ [](NoOrphanLock /\ MarkedDone /\ LaneNeverBlocked)

\* create_session raised for the first heartbeat item; the second one, for
\* the same key, holds the lock of the key and is creating the session
C16_Witness ==
    /\ failures = 1
    /\ counter = 0
    /\ enqueued = 2
    /\ unfinished = [l \in Lanes |-> IF l = "heartbeat" THEN 1 ELSE 0]
    /\ activity_order = <<AdminChat>>
    /\ worker["heartbeat"].pc = "create_session"
    /\ worker["heartbeat"].item.id = 2
    /\ chat_locks[AdminChat].holder = "heartbeat"

\* the step is one in which run_async raises for the item of lane l
RunAsyncRaises(l) ==
    /\ worker[l].pc = "run_async"
    /\ worker'[l] # worker[l]
    /\ failures' = failures + 1

\* C17: an exception of the agent run is not propagated out of the
\* processing of the item, and the one reply sent for the item is the generic
\* apology in place of the agent's output.
C17_ApologyReplacesOutput ==
    [][\A l \in Lanes :
         RunAsyncRaises(l) =>
            /\ worker'[l].pc = "send_reply"
            /\ worker'[l].item = worker[l].item
            /\ chat_locks' = chat_locks
            /\ worker'[l].response = Apology]_vars

(***************************************************************************)
(* The termination of the process.  main() waits until it is interrupted;  *)
(* its finally clause stops the heartbeat scheduler, cancels the heartbeat *)
(* task and the dispatcher task, stops the channels and returns.           *)
(* Dispatcher.shutdown has no caller in the repository: it is given here   *)
(* as the step it would be, and is no part of any next-state relation.     *)
(***************************************************************************)
\* shutdown: for chat_id in list(self._sessions), the curator run and the
\* flush of the key's session
ShutdownCalls ==
    {[step |-> st, session_id |-> sessions[k]] :
        st \in {"curate", "flush"}, k \in {j \in Keys : sessions[j] # NoSession}}

\* Dispatcher.shutdown()
Shutdown ==
    /\ main = "shutdown"
    /\ main' = "exited"
    /\ memory' = memory \cup ShutdownCalls
    /\ UNCHANGED <<dvars, now, qvars, svars>>

\* main: the interrupt ends the wait; the finally clause cancels the tasks
\* and main returns
Interrupt ==
    /\ main = "running"
    /\ main' = "exited"
    /\ UNCHANGED <<memory, dvars, now, qvars, svars>>

\* the dispatcher runs until the process is interrupted
Running ==
    /\ main = "running"
    /\ Next

TerminationNext == Running \/ Interrupt

SpecTermination == Init /\ [][TerminationNext]_vars

\* C18: when the process has ended gracefully, every key that still has an
\* active session has had that session curated and flushed to memory.
C18_SessionsFlushedAtExit ==
    main = "exited" =>
        \A k \in Keys :
            sessions[k] # NoSession =>
                \A st \in {"curate", "flush"} :
                    [step |-> st, session_id |-> sessions[k]] \in memory

\* the keys that have a session
WithSession == {k \in Keys : sessions[k] # NoSession}

\* the worker of a lane creates the session of key k: the key has none, and
\* the worker holds the lock of k
CreatedByProcess(k) ==
    /\ sessions[k] = NoSession
    /\ \E l \in Lanes :
          /\ worker[l].pc = "create_session"
          /\ worker[l].item.chat_id = k
          /\ chat_locks[k].holder = l
    /\ replaced' = replaced

\* a rotation of key k completes: the session of k is replaced
CreatedByRotation(k) ==
    /\ sessions[k] # NoSession
    /\ Rotating(k)
    /\ reaper.pc = "create_session"
    /\ chat_locks[k].holder = "reaper"
    /\ replaced' = replaced \cup {sessions[k]}
    /\ sessions[k] \notin replaced

\* the session id of a key changes only to a session just created, for that
\* key alone, by its first processing or by a rotation; every session
\* created becomes the session of a key; a key keeps having a session
SessionsCreatedUnderLock ==
    /\ \A k \in Keys :
          sessions'[k] # sessions[k] =>
              /\ counter' = counter + 1
              /\ sessions'[k] = counter'
              /\ \A j \in Keys \ {k} : sessions'[j] = sessions[j]
              /\ CreatedByProcess(k) \/ CreatedByRotation(k)
    /\ counter' # counter => \E k \in Keys : sessions'[k] # sessions[k]
    /\ replaced' # replaced => \E k \in Keys : sessions'[k] # sessions[k]

\* the sessions created so far are one for each key that has a session and
\* one for each completed rotation; no two keys share a session
OnePlusRotations ==
    /\ counter = Cardinality(WithSession) + Cardinality(replaced)
    /\ \A j, k \in WithSession : j # k => sessions[j] # sessions[k]

\* C19: processing creates a session for a key only when the key has none,
\* under the key's lock: whatever the interleaving of chat and heartbeat
\* items for one key, one session is created for its first message, and the
\* sessions ever created for a key are one plus its completed rotations.
C19_OneSessionPerKey ==
    /\ [][SessionsCreatedUnderLock]_vars
    /\ []OnePlusRotations

\* the heartbeat item has created the session of the key and runs the agent
\* while a chat item for the same key waits for the lock
C19_Witness ==
    /\ worker["heartbeat"].pc = "run_async"
    /\ worker["chat"].pc = "lock"
    /\ worker["chat"].item.chat_id = AdminChat
    /\ counter = 1
    /\ sessions[AdminChat] = 1
    /\ worker["heartbeat"].session_id = 1

\* the keys the reaper is rotating or has still to rotate in this scan
ToRotate ==
    IF reaper.pc = "returned" THEN Range(Tail(reaper.idle_chats))
    ELSE Range(reaper.idle_chats)

\* a key without activity entry is not selected by a scan, fails the
\* re-check of _rotate_session, and is neither being rotated nor about to be
NoEntryNoRotation ==
    \A k \in Keys :
        last_activity[k] = NoTime =>
            /\ k \notin Range(IdleChats)
            /\ ~StillIdle(k)
            /\ ~Rotating(k)
            /\ k \notin ToRotate

\* the step completes a rotation of key k
RotationCompletes(k) ==
    /\ Rotating(k)
    /\ reaper.pc = "create_session"
    /\ sessions'[k] # sessions[k]

\* the step is the start of the processing of a WorkItem for key k
ProcessingStarts(k) ==
    \E l \in Lanes :
        /\ worker[l].pc \in {"get", "lock"}
        /\ worker'[l].pc \in {"create_session", "run_async"}
        /\ worker'[l].item.chat_id = k

\* a completed rotation removes the activity entry of its key, and the entry
\* comes back only with the processing of a WorkItem for the key
EntryClearedUntilProcessed ==
    \A k \in Keys :
        /\ RotationCompletes(k) =>
              /\ last_activity'[k] = NoTime
              /\ k \notin Range(activity_order')
              /\ installed'[k] = sessions'[k]
        /\ (last_activity[k] = NoTime /\ last_activity'[k] # NoTime) =>
              ProcessingStarts(k)
        /\ (installed[k] # NoSession /\ installed[k] = sessions[k]
               /\ last_activity[k] = NoTime) => ~Rotating(k)'

\* C20: a completed rotation removes the activity entry of its key, and a key
\* without entry is neither selected by the reaper nor rotated: the session a
\* rotation installed is not rotated again before a WorkItem was processed
\* for the key.
C20_RotatedKeyRestsUntilProcessed ==
    /\ []NoEntryNoRotation
    /\ [][EntryClearedUntilProcessed]_vars

\* the session a rotation installed is still the session of the key, the key
\* has no activity entry, the clock has run to its end, and the reaper sleeps
C20_Witness ==
    \E k \in Keys :
        /\ installed[k] # NoSession
        /\ installed[k] = sessions[k]
        /\ last_activity[k] = NoTime
        /\ reaper.pc = "sleep"
        /\ now = MaxTime
        /\ replaced # {}

(***************************************************************************)
(* The two maps _sessions and _last_activity are written under the lock.   *)
(***************************************************************************)
\* the coroutines of the dispatcher that write the maps
Writers == Lanes \cup {"reaper"}

\* the coroutine p runs in this step
Runs(p) == IF p = "reaper" THEN reaper' # reaper ELSE worker'[p] # worker[p]

\* p holds the lock of k during the step: it held it before, or the step
\* begins with p taking the free lock
HeldDuring(k, p) ==
    \/ chat_locks[k].holder = p
    \/ chat_locks[k].holder = Free /\ chat_locks'[k].holder = p

\* the step writes the entry of k in one of the two maps
Written(k) == sessions'[k] # sessions[k] \/ last_activity'[k] # last_activity[k]

WrittenUnderLock ==
    \A k \in Keys :
        Written(k) => \E p \in Writers :
                         /\ Runs(p)
                         /\ HeldDuring(k, p)
                         /\ \A q \in Writers \ {p} : ~Runs(q)

\* C21: every change of a key's session id or activity timestamp is made by a
\* step of a coroutine (lane worker or reaper) that holds the key's lock
\* during that step; no other coroutine runs in the step.
C21_MapsWrittenUnderLock == [][WrittenUnderLock]_vars

\* a worker processes, under the lock, an item for a key whose session a
\* rotation installed: both maps were written by _process and by the rotation
C21_Witness ==
    \E k \in Keys : \E l \in Lanes :
        /\ installed[k] # NoSession
        /\ sessions[k] = installed[k]
        /\ InProcess(l, k)
        /\ chat_locks[k].holder = l
        /\ last_activity[k] = now
        /\ replaced # {}

(***************************************************************************)
(* The memory subsystem (src/src/adk_claw/memory).                         *)
(*                                                                         *)
(* EmbeddingStore: the tables chunks and vec_chunks of embeddings.db.  A   *)
(* row of chunks has an AUTOINCREMENT id (never handed out twice) and a    *)
(* UNIQUE content_hash; vec_chunks holds the embedding of a row under the  *)
(* row's id.  The calls are synchronous: each is one action.               *)
(***************************************************************************)
MaxBatch == 2     \* chunks handed to upsert_chunks in one call
MaxRowId == 3     \* ids the table chunks hands out in one behaviour

\* a MemoryChunk (without its score); heading and content are texts, the
\* sequences of their characters
Chunk(s, h, c) == [source_file |-> s, heading |-> h, content |-> c]

\* the chunks of the calls made to the store directly; the last two are
\* different chunks with one key
StoreChunks ==
    {Chunk(MemoryFile, <<"A">>, <<"x">>), Chunk(MemoryFile, <<"A">>, <<"y">>),
     Chunk(MemoryFile, <<"A">>, <<"x", "|", "y">>),
     Chunk(MemoryFile, <<"A", "|", "x">>, <<"y">>)}

\* content_hash: the SHA-256 digest of the key "source_file|heading|content".
\* The digest is represented by the key it is computed from (the characters
\* of heading and content, the name of the file as one token): two chunks
\* have one digest exactly when they have one key.
ContentHash(c) == <<c.source_file, "|">> \o c.heading \o <<"|">> \o c.content

\* the dict handed to upsert_chunks for a chunk
WithHash(c) == [source_file |-> c.source_file, heading |-> c.heading,
                content |-> c.content, content_hash |-> ContentHash(c)]

\* embed_texts: one vector for each text, in the order of the texts
Embedding(text) == [of |-> text]

EmbedTexts(texts) == [i \in 1..Len(texts) |-> Embedding(texts[i])]

\* get_existing_hashes
GetExistingHashes(rows) == {r.content_hash : r \in rows}

\* the store as the calls see it
Db == [chunks |-> chunks, vec_chunks |-> vec_chunks,
       autoincrement |-> autoincrement, inserted |-> 0]

\* fault: a table chunks without the UNIQUE constraint on content_hash
NeverDuplicate(db, d) == FALSE

\* the INSERT into chunks raises IntegrityError: the content_hash is stored
Duplicate(db, d) == d.content_hash \in GetExistingHashes(db.chunks)

\* upsert_chunks, one turn of its loop: the row and its vector are inserted,
\* or the IntegrityError is passed over
InsertOne(db, d, emb) ==
    IF Duplicate(db, d) THEN db
    ELSE LET row_id == db.autoincrement + 1
         IN [chunks |-> db.chunks \cup
                          {[id |-> row_id, source_file |-> d.source_file,
                            heading |-> d.heading, content |-> d.content,
                            content_hash |-> d.content_hash]},
             vec_chunks |-> db.vec_chunks \cup {[id |-> row_id, embedding |-> emb]},
             autoincrement |-> row_id,
             inserted |-> db.inserted + 1]

Min(a, b) == IF a <= b THEN a ELSE b

RECURSIVE InsertAll(_, _, _, _)
\* upsert_chunks: for chunk, emb in zip(chunks, embeddings), from pair i on
InsertAll(db, ds, embs, i) ==
    IF i > Min(Len(ds), Len(embs)) THEN db
    ELSE InsertAll(InsertOne(db, ds[i], embs[i]), ds, embs, i + 1)

\* the argument lists of upsert_chunks: up to MaxBatch chunks, repeats allowed
Batches == UNION {[1..n -> StoreChunks] : n \in 0..MaxBatch}

Contents(cs) == [i \in 1..Len(cs) |-> cs[i].content]

Dicts(cs) == [i \in 1..Len(cs) |-> WithHash(cs[i])]

\* upsert_chunks(chunks, embeddings), each chunk with its own vector
UpsertChunks(cs) ==
    /\ LET db == InsertAll(Db, Dicts(cs), EmbedTexts(Contents(cs)), 1)
       IN /\ db.autoincrement <= MaxRowId
          /\ chunks' = db.chunks
          /\ vec_chunks' = db.vec_chunks
          /\ autoincrement' = db.autoincrement
          /\ call' = [op |-> "upsert_chunks", arg |-> cs, ret |-> db.inserted]
    /\ UNCHANGED <<evars, dvars, now, qvars, mvars>>

\* fault: the chunks to keep taken for the stale ones
StaleKept(existing, current_hashes) == existing \cap current_hashes

\* delete_stale_chunks: stale = existing - current_hashes
Stale(existing, current_hashes) == existing \ current_hashes

\* the store after delete_stale_chunks(current_hashes), and the count it returns
Pruned(db, current_hashes) ==
    LET stale == Stale(GetExistingHashes(db.chunks), current_hashes)
        ids == {r.id : r \in {x \in db.chunks : x.content_hash \in stale}}
    IN  [chunks |-> {r \in db.chunks : r.id \notin ids},
         vec_chunks |-> {v \in db.vec_chunks : v.id \notin ids},
         autoincrement |-> db.autoincrement,
         inserted |-> db.inserted,
         deleted |-> Cardinality(ids)]

\* the fingerprints of the chunks the store is called with
Hashes == {ContentHash(c) : c \in StoreChunks}

\* delete_stale_chunks(current_hashes)
DeleteStaleChunks(S) ==
    /\ LET db == Pruned(Db, S)
       IN /\ chunks' = db.chunks
          /\ vec_chunks' = db.vec_chunks
          /\ call' = [op |-> "delete_stale_chunks", arg |-> S, ret |-> db.deleted]
    /\ UNCHANGED <<autoincrement, evars, dvars, now, qvars, mvars>>

StoreNext ==
    \/ \E cs \in Batches : UpsertChunks(cs)
    \/ \E S \in SUBSET Hashes : DeleteStaleChunks(S)

SpecStore == Init /\ [][StoreNext]_vars

(***************************************************************************)
(* Properties of the EmbeddingStore.                                       *)
(***************************************************************************)
\* no two rows with one fingerprint, no two rows with one id, one vector for
\* each row and none without a row
UniqueFingerprints ==
    /\ \A r, q \in chunks : (r.content_hash = q.content_hash \/ r.id = q.id) => r = q
    /\ {v.id : v \in vec_chunks} = {r.id : r \in chunks}
    /\ Cardinality(vec_chunks) = Cardinality(chunks)

\* the fingerprints of the argument list that the store does not hold
Missing(cs) == {ContentHash(cs[i]) : i \in 1..Len(cs)} \ GetExistingHashes(chunks)

\* the first chunk of the list with fingerprint h
FirstWith(cs, h) ==
    cs[CHOOSE i \in 1..Len(cs) :
          /\ ContentHash(cs[i]) = h
          /\ \A j \in 1..(i - 1) : ContentHash(cs[j]) # h]

\* what upsert_chunks(cs) does: the rows stored before stay as they are; one
\* row is inserted for each fingerprint of the list that was not stored, with
\* the fields of the first chunk that has it and with that chunk's vector;
\* the number of inserted rows is returned
UpsertInsertsMissing ==
    LET cs == call'.arg IN
        (call'.op = "upsert_chunks" /\ UpsertChunks(cs)) =>
            /\ chunks \subseteq chunks'
            /\ vec_chunks \subseteq vec_chunks'
            /\ {r.content_hash : r \in chunks' \ chunks} = Missing(cs)
            /\ Cardinality(chunks' \ chunks) = Cardinality(Missing(cs))
            /\ call'.ret = Cardinality(Missing(cs))
            /\ \A r \in chunks' \ chunks :
                  /\ Chunk(r.source_file, r.heading, r.content) =
                        FirstWith(cs, r.content_hash)
                  /\ r.id > autoincrement
                  /\ [id |-> r.id, embedding |-> Embedding(r.content)] \in vec_chunks'

\* the same chunk upserted twice: 1, then 0, and one row holds it
SameTwice ==
    \A c \in StoreChunks :
        /\ (ContentHash(c) \notin GetExistingHashes(chunks) /\ UpsertChunks(<<c>>))
              => call'.ret = 1
        /\ (/\ call.op = "upsert_chunks"
            /\ call.arg = <<c>>
            /\ call.ret = 1
            /\ UpsertChunks(<<c>>))
              => /\ call'.ret = 0
                 /\ chunks' = chunks
                 /\ Cardinality({r \in chunks' : WithHash(c) =
                        [source_file |-> r.source_file, heading |-> r.heading,
                         content |-> r.content, content_hash |-> r.content_hash]}) = 1

\* C22: upsert_chunks inserts one row for each fingerprint of its argument
\* list that is not stored yet, returns the number of rows it inserted and
\* leaves the stored rows as they are; in every state reached by calls of
\* upsert_chunks and delete_stale_chunks no two rows share a fingerprint; the
\* same chunk upserted twice gives 1, then 0, and one row.
C22_UpsertDeduplicates ==
    /\ []UniqueFingerprints
    /\ [][UpsertInsertsMissing]_vars
    /\ [][SameTwice]_vars

\* a chunk was upserted again (0 returned) into a store that holds it next to
\* another row, after a row had been deleted
C22_Witness ==
    /\ call.op = "upsert_chunks"
    /\ Len(call.arg) = 1
    /\ call.ret = 0
    /\ Cardinality(chunks) = 2
    /\ autoincrement = MaxRowId

\* what delete_stale_chunks(S) does: the rows with a fingerprint outside S go
\* (with their vectors), the others stay as they are, the number of removed
\* rows is returned
DeleteRemovesStale ==
    LET S == call'.arg IN
        (call'.op = "delete_stale_chunks" /\ DeleteStaleChunks(S)) =>
            /\ chunks' = {r \in chunks : r.content_hash \in S}
            /\ vec_chunks' = {v \in vec_chunks : \E r \in chunks' : r.id = v.id}
            /\ call'.ret = Cardinality(chunks \ chunks')
            /\ GetExistingHashes(chunks') = GetExistingHashes(chunks) \cap S
            /\ (GetExistingHashes(chunks) \subseteq S) =>
                  (call'.ret = 0 /\ chunks' = chunks /\ vec_chunks' = vec_chunks)

\* C23: delete_stale_chunks(S) removes the rows whose fingerprint is not in
\* S, keeps the others unchanged and returns the number of rows it removed (0
\* when nothing is stale); the stored fingerprints afterwards are the former
\* ones intersected with S.
C23_DeleteStaleRemovesOthers == [][DeleteRemovesStale]_vars

\* a call removed one of two rows and kept the other
C23_Witness ==
    /\ call.op = "delete_stale_chunks"
    /\ call.ret = 1
    /\ Cardinality(chunks) = 1
    /\ \E r \in chunks : r.content_hash \in call.arg
    /\ autoincrement >= 2

(***************************************************************************)
(* Texts.  A text is the sequence of its characters, a line one without    *)
(* "\n".  The operators are those of Python's str that the memory code     *)
(* uses, computed on the characters.                                       *)
(***************************************************************************)
MaxLines == 3     \* lines of a text handed to _split_by_headings

Whitespace == {" ", "\n"}

RECURSIVE LStrip(_, _)
\* str.lstrip(chars)
LStrip(t, chars) ==
    IF t # <<>> /\ Head(t) \in chars THEN LStrip(Tail(t), chars) ELSE t

RECURSIVE RStrip(_, _)
\* str.rstrip(chars)
RStrip(t, chars) ==
    IF t # <<>> /\ t[Len(t)] \in chars THEN RStrip(SubSeq(t, 1, Len(t) - 1), chars)
    ELSE t

\* str.strip()
Strip(t) == RStrip(LStrip(t, Whitespace), Whitespace)

\* str.startswith(prefix)
StartsWith(t, prefix) ==
    Len(t) >= Len(prefix) /\ SubSeq(t, 1, Len(prefix)) = prefix

\* the place of the first "\n" of t, 0 when it has none
FirstNewline(t) ==
    IF \E i \in 1..Len(t) : t[i] = "\n"
    THEN CHOOSE i \in 1..Len(t) : t[i] = "\n" /\ \A j \in 1..(i - 1) : t[j] # "\n"
    ELSE 0

RECURSIVE SplitLines(_)
\* str.splitlines(): a final "\n" ends the last line and opens no other
SplitLines(t) ==
    IF t = <<>> THEN <<>>
    ELSE LET i == FirstNewline(t)
         IN IF i = 0 THEN <<t>>
            ELSE <<SubSeq(t, 1, i - 1)>> \o SplitLines(SubSeq(t, i + 1, Len(t)))

RECURSIVE Join(_, _)
\* sep.join(parts)
Join(parts, sep) ==
    IF parts = <<>> THEN <<>>
    ELSE IF Len(parts) = 1 THEN parts[1]
    ELSE parts[1] \o sep \o Join(Tail(parts), sep)

\* the lines the texts are made of: two top-level headings, a second-level
\* heading, a lone "#", two lines of body and the empty line
Lines ==
    {<<"#", " ", "A">>, <<"#", " ", "B">>, <<"#", "#", " ", "C">>, <<"#">>,
     <<"x">>, <<"y">>, <<>>}

\* the texts of up to n lines
Texts(n) == {Join(ls, <<"\n">>) : ls \in UNION {[1..m -> Lines] : m \in 0..n}}

(***************************************************************************)
(* _split_by_headings(text, source_file): the chunks of a markdown text.   *)
(***************************************************************************)
\* the chunk in progress is closed: appended when it has lines and its
\* stripped content is not empty
Closed(st, source_file) ==
    LET content == Strip(Join(st.current_lines, <<"\n">>))
    IN  IF st.current_lines # <<>> /\ content # <<>>
        THEN Append(st.chunks, Chunk(source_file, st.current_heading, content))
        ELSE st.chunks

\* the test that makes a line a heading: line.startswith("#")
IsHeading(line) == StartsWith(line, <<"#">>)

RECURSIVE SplitFrom(_, _, _)
\* the loop over text.splitlines()
SplitFrom(st, lines, source_file) ==
    IF lines = <<>> THEN Closed(st, source_file)
    ELSE LET line == Head(lines)
         IN IF IsHeading(line)
            THEN SplitFrom([chunks |-> Closed(st, source_file),
                            current_heading |-> Strip(LStrip(line, {"#"})),
                            current_lines |-> <<>>],
                           Tail(lines), source_file)
            ELSE SplitFrom([st EXCEPT !.current_lines = Append(@, line)],
                           Tail(lines), source_file)

SplitByHeadings(text, source_file) ==
    SplitFrom([chunks |-> <<>>, current_heading |-> <<>>, current_lines |-> <<>>],
              SplitLines(text), source_file)

\* _split_by_headings called on a text
Split(text) ==
    /\ call' = [op |-> "split_by_headings", arg |-> text,
                ret |-> SplitByHeadings(text, MemoryFile)]
    /\ UNCHANGED <<tvars, evars, dvars, now, qvars, mvars>>

SplitNext == \E text \in Texts(MaxLines) : Split(text)

SpecSplit == Init /\ [][SplitNext]_vars

(***************************************************************************)
(* Properties of _split_by_headings.                                       *)
(***************************************************************************)
\* a top-level heading line: one "#", then a blank and the heading text, or
\* nothing (an empty heading)
TopLevel(line) == line = <<"#">> \/ StartsWith(line, <<"#", " ">>)

\* the lines of ls from place i up to the next top-level heading line
RECURSIVE BodyFrom(_, _)
BodyFrom(ls, i) ==
    IF i > Len(ls) \/ TopLevel(ls[i]) THEN <<>>
    ELSE <<ls[i]>> \o BodyFrom(ls, i + 1)

\* the chunk that starts at place i of ls (0: the content before the first
\* line), or none when its trimmed body is empty
ChunkAt(ls, i) ==
    LET body == Strip(Join(BodyFrom(ls, i + 1), <<"\n">>))
        heading == IF i = 0 THEN <<>> ELSE Strip(Tail(ls[i]))
    IN  IF body = <<>> THEN <<>> ELSE <<Chunk(MemoryFile, heading, body)>>

RECURSIVE ChunksFrom(_, _)
ChunksFrom(ls, i) ==
    IF i > Len(ls) THEN <<>>
    ELSE (IF i = 0 \/ TopLevel(ls[i]) THEN ChunkAt(ls, i) ELSE <<>>)
         \o ChunksFrom(ls, i + 1)

\* the chunks of a text split at its top-level heading lines only
SplitAtTopLevel(text) == ChunksFrom(SplitLines(text), 0)

\* C29: _split_by_headings returns, in document order, one chunk for each
\* top-level heading with a non-empty trimmed body (all lines up to the next
\* top-level heading), a chunk with heading "" for non-empty content before
\* the first heading and none for a heading with an empty body; lines that
\* are not top-level headings stay in the body.
C29_SplitsAtTopLevelHeadings ==
    call.op = "split_by_headings" => call.ret = SplitAtTopLevel(call.arg)

(***************************************************************************)
(* MemorySearchEngine.build_index: the documents are read and chunked, the *)
(* lexical index is built over the chunk contents and, with vector search  *)
(* enabled, the embedding store is brought up to date.  The call is        *)
(* synchronous: one action.                                                *)
(***************************************************************************)
\* the letters of the texts, lowercased; every other character separates words
Lower(ch) ==
    CASE ch = "A" -> "a" [] ch = "B" -> "b" [] ch = "C" -> "c"
      [] ch \in {"x", "y"} -> ch
      [] OTHER -> ""

RECURSIVE TokensFrom(_, _)
\* re.findall(r"\w+", text.lower()), with the word in progress
TokensFrom(t, word) ==
    IF t = <<>> THEN (IF word = <<>> THEN <<>> ELSE <<word>>)
    ELSE IF Lower(Head(t)) # ""
         THEN TokensFrom(Tail(t), Append(word, Lower(Head(t))))
         ELSE (IF word = <<>> THEN <<>> ELSE <<word>>) \o TokensFrom(Tail(t), <<>>)

Tokenize(t) == TokensFrom(t, <<>>)

\* the documents a write_memory_file call writes: none, one section, the same
\* heading with another body, two sections, one section twice, no heading
Documents ==
    {<<>>,
     <<"#", " ", "A", "\n", "x">>,
     <<"#", " ", "A", "\n", "y", "\n">>,
     <<"#", " ", "A", "\n", "x", "\n", "#", " ", "B", "\n", "y", "\n">>,
     <<"#", " ", "A", "\n", "x", "\n", "#", " ", "A", "\n", "x", "\n">>,
     <<"x", "\n">>}

\* the chunks of one file, none for a file that does not exist
ChunksOf(f) == IF files[f] = NoFile THEN <<>> ELSE SplitByHeadings(files[f], f)

\* build_index: MEMORY.md first, then the other documents
FreshChunks == ChunksOf(MemoryFile) \o ChunksOf(LogFile)

\* BM25Okapi(corpus) over the tokenized contents, None without chunks
IndexOver(cs) ==
    IF cs = <<>> THEN NoIndex ELSE [i \in 1..Len(cs) |-> Tokenize(cs[i].content)]

\* fault: an update of the vector index that prunes nothing
NothingPruned(db, current_hashes) ==
    [chunks |-> db.chunks, vec_chunks |-> db.vec_chunks,
     autoincrement |-> db.autoincrement, inserted |-> db.inserted, deleted |-> 0]

\* _update_vector_index: delete_stale_chunks(current_hashes) comes first
PrunedFirst(db, current_hashes) == Pruned(db, current_hashes)

\* _update_vector_index: the chunks whose hash the pruned store does not hold
NewChunks(cs, existing_hashes) ==
    SelectSeq(Dicts(cs), LAMBDA d : d.content_hash \notin existing_hashes)

\* _update_vector_index over the chunks cs; ok: embed_texts returns (one
\* vector for each text) or raises
UpdateVectorIndex(cs, ok) ==
    LET current_hashes == {ContentHash(cs[i]) : i \in 1..Len(cs)}
        pruned == PrunedFirst(Db, current_hashes)
        existing_hashes == GetExistingHashes(pruned.chunks)
        new_chunks == NewChunks(cs, existing_hashes)
        texts == [i \in 1..Len(new_chunks) |-> new_chunks[i].content]
    IN  [db |-> IF new_chunks # <<>> /\ ok
                THEN InsertAll(pruned, new_chunks, EmbedTexts(texts), 1)
                ELSE pruned,
         existing_hashes |-> existing_hashes,
         new_chunks |-> new_chunks,
         embedded |-> ok \/ new_chunks = <<>>]

\* the engine after build_index: the chunks of the documents and their index
RebuiltEngine == [engine EXCEPT !.chunks = FreshChunks, !.index = IndexOver(FreshChunks)]

\* the embedding store after build_index: updated when vector search is
\* enabled
RebuiltStore(ok) ==
    IF engine.vector_enabled THEN UpdateVectorIndex(FreshChunks, ok).db ELSE Db

\* what build_index does to the engine and to the embedding store
Rebuilding(ok) ==
    /\ engine' = RebuiltEngine
    /\ IF engine.vector_enabled
       THEN /\ RebuiltStore(ok).autoincrement <= MaxRowId
            /\ chunks' = RebuiltStore(ok).chunks
            /\ vec_chunks' = RebuiltStore(ok).vec_chunks
            /\ autoincrement' = RebuiltStore(ok).autoincrement
       ELSE /\ ok
            /\ UNCHANGED tvars

\* MemorySearchEngine.build_index(base_dir)
BuildIndex(ok) ==
    /\ Rebuilding(ok)
    /\ LET up == UpdateVectorIndex(FreshChunks, ok)
       IN  call' = IF engine.vector_enabled
                   THEN [op |-> "build_index", vector |-> TRUE,
                         existing_hashes |-> up.existing_hashes,
                         new_chunks |-> up.new_chunks,
                         embedded |-> up.embedded]
                   ELSE [op |-> "build_index", vector |-> FALSE,
                         existing_hashes |-> {}, new_chunks |-> <<>>,
                         embedded |-> TRUE]
    /\ UNCHANGED <<files, dirty, persisted_event_ids, dvars, now, qvars, mvars>>

\* MarkdownMemoryService.__init__: enable_vector_search opens the embedding
\* store, or fails and leaves the engine lexical
EnableVectorSearch(ok) ==
    /\ call.op = "none"
    /\ engine' = [engine EXCEPT !.vector_enabled = ok]
    /\ call' = [op |-> "enable_vector_search", ret |-> ok]
    /\ UNCHANGED <<tvars, files, dirty, persisted_event_ids, dvars, now, qvars, mvars>>

\* write_memory_file(content): MEMORY.md is replaced, the flag is set
WriteMemoryFile(content) ==
    /\ files' = [files EXCEPT ![MemoryFile] = content]
    /\ dirty' = TRUE
    /\ call' = [op |-> "write_memory_file", arg |-> content]
    /\ UNCHANGED <<tvars, engine, persisted_event_ids, dvars, now, qvars, mvars>>

IndexNext ==
    \/ \E ok \in BOOLEAN : EnableVectorSearch(ok)
    \/ \E content \in Documents : WriteMemoryFile(content)
    \/ \E ok \in BOOLEAN : BuildIndex(ok)

SpecIndex == Init /\ [][IndexNext]_vars

(***************************************************************************)
(* Properties of the update of the vector index.                           *)
(***************************************************************************)
\* the fingerprints of the chunks of the engine
CurrentHashes == {ContentHash(engine.chunks[i]) : i \in 1..Len(engine.chunks)}

\* the latest call was a rebuild with vector search enabled
Rebuilt == call.op = "build_index" /\ call.vector

\* C24: in a rebuild with vector search enabled the stale rows are pruned
\* before anything is embedded, no chunk whose fingerprint is stored is
\* embedded, no fingerprint is embedded twice, and the number of embedded
\* texts is the number of current fingerprints the store did not hold.
C24_OnlyDeltaEmbedded ==
    Rebuilt =>
        /\ call.existing_hashes \subseteq CurrentHashes
        /\ \A i \in 1..Len(call.new_chunks) :
              call.new_chunks[i].content_hash \notin call.existing_hashes
        /\ \A i, j \in 1..Len(call.new_chunks) :
              call.new_chunks[i].content_hash = call.new_chunks[j].content_hash
                 => i = j
        /\ Len(call.new_chunks) = Cardinality(CurrentHashes \ call.existing_hashes)

\* C25: after a rebuild with vector search enabled the store holds no row
\* whose fingerprint is not one of the freshly chunked documents, whether the
\* embedding call returned or raised; when it returned (or was not needed),
\* the stored fingerprints are those of the current chunks.
C25_StoreFollowsDocuments ==
    Rebuilt =>
        /\ GetExistingHashes(chunks) \subseteq CurrentHashes
        /\ call.embedded => GetExistingHashes(chunks) = CurrentHashes
        /\ UniqueFingerprints

\* a rebuild whose embedding call raised, after a document was replaced: the
\* row of the former document is gone, the new chunk is not stored
C25_Witness ==
    /\ Rebuilt
    /\ ~call.embedded
    /\ autoincrement > 0
    /\ chunks = {}
    /\ engine.chunks # <<>>

(***************************************************************************)
(* _rrf_fuse(ranked_lists, k = 60): Reciprocal Rank Fusion.  A score is a  *)
(* sum of fractions 1/(k + rank); it is kept as its numerator over the     *)
(* common denominator RrfDen, so that sums and comparisons are exact.      *)
(***************************************************************************)
MaxRank == 2      \* items of a ranked list handed to _rrf_fuse
MaxLists == 2     \* ranked lists handed to _rrf_fuse

RrfK == 60

\* the ranks a list of the model can have: 61 * 62 * 63 * 64 * 65 is the
\* largest common denominator below 2^31
Ranks == 1..5

RECURSIVE Product(_)
Product(S) ==
    IF S = {} THEN 1
    ELSE LET x == CHOOSE y \in S : TRUE IN x * Product(S \ {x})

\* the common denominator of the fractions 1/(k + rank)
RrfDen == Product({RrfK + r : r \in Ranks})

\* fault: ranks counted from 0
ContributionFromZero(rank) == RrfDen \div (RrfK + rank - 1)

\* 1.0 / (k + rank), for enumerate(ranked_list, start=1)
Contribution(rank) == RrfDen \div (RrfK + rank)

\* key = (chunk.source_file, chunk.heading, chunk.content)
Identity(c) == Chunk(c.source_file, c.heading, c.content)

\* a MemoryChunk with its score
Scored(c, score) == [source_file |-> c.source_file, heading |-> c.heading,
                     content |-> c.content, score |-> score]

\* scores[key] = scores.get(key, 0.0) + 1.0 / (k + rank); a new key goes to
\* the end of the dict
Accumulated(acc, c, rank) ==
    IF \E i \in 1..Len(acc) : acc[i].key = Identity(c)
    THEN [i \in 1..Len(acc) |->
            IF acc[i].key = Identity(c)
            THEN [acc[i] EXCEPT !.score = @ + Contribution(rank)]
            ELSE acc[i]]
    ELSE Append(acc, [key |-> Identity(c), score |-> Contribution(rank)])

RECURSIVE AccumulatedList(_, _, _)
\* for rank, chunk in enumerate(ranked_list, start=1), from rank on
AccumulatedList(acc, ranked_list, rank) ==
    IF rank > Len(ranked_list) THEN acc
    ELSE AccumulatedList(Accumulated(acc, ranked_list[rank], rank), ranked_list, rank + 1)

RECURSIVE AccumulatedLists(_, _)
\* for ranked_list in ranked_lists
AccumulatedLists(acc, ranked_lists) ==
    IF ranked_lists = <<>> THEN acc
    ELSE AccumulatedLists(AccumulatedList(acc, Head(ranked_lists), 1), Tail(ranked_lists))

\* one element put into a list sorted by falling score, behind its equals
InsertedByScore(sorted, e) ==
    LET n == Cardinality({i \in 1..Len(sorted) : sorted[i].score >= e.score})
    IN  SubSeq(sorted, 1, n) \o <<e>> \o SubSeq(sorted, n + 1, Len(sorted))

RECURSIVE SortedByScore(_, _)
\* sorted(..., key=score, reverse=True): stable, equals keep their order
SortedByScore(sorted, rest) ==
    IF rest = <<>> THEN sorted
    ELSE SortedByScore(InsertedByScore(sorted, Head(rest)), Tail(rest))

RrfFuse(ranked_lists) ==
    LET scores == SortedByScore(<<>>, AccumulatedLists(<<>>, ranked_lists))
    IN  [i \in 1..Len(scores) |-> Scored(scores[i].key, scores[i].score)]

\* the chunks of the lists handed to _rrf_fuse directly, with the scores of
\* their own rankings
ChunkA == Scored(Chunk(MemoryFile, <<"A">>, <<"x">>), 1)
ChunkB == Scored(Chunk(MemoryFile, <<"B">>, <<"y">>), 2)
ChunkC == Scored(Chunk(LogFile, <<"C">>, <<"x">>), 1)

RankedLists == UNION {[1..n -> {ChunkA, ChunkB, ChunkC}] : n \in 0..MaxRank}

\* _rrf_fuse called on a list of ranked lists
Fuse(ranked_lists) ==
    /\ call' = [op |-> "rrf_fuse", arg |-> ranked_lists, ret |-> RrfFuse(ranked_lists)]
    /\ UNCHANGED <<tvars, evars, dvars, now, qvars, mvars>>

\* the function reads nothing but its argument: it is applied once to each
\* argument, from the initial state
FuseNext ==
    /\ call = NoCall
    /\ \E n \in 0..MaxLists : \E ranked_lists \in [1..n -> RankedLists] : Fuse(ranked_lists)

SpecFuse == Init /\ [][FuseNext]_vars

(***************************************************************************)
(* Properties of _rrf_fuse.                                                *)
(***************************************************************************)
\* the places (list, rank) of the lists at which the identity id stands
PlacesOf(lists, id) ==
    {p \in (1..Len(lists)) \X Ranks :
        p[2] <= Len(lists[p[1]]) /\ Identity(lists[p[1]][p[2]]) = id}

RECURSIVE SumOfReciprocals(_)
\* the sum of 1/(60 + r) over a set of places, as a numerator over RrfDen
SumOfReciprocals(P) ==
    IF P = {} THEN 0
    ELSE LET p == CHOOSE q \in P : TRUE
         IN (RrfDen \div (60 + p[2])) + SumOfReciprocals(P \ {p})

\* the identities that stand in the lists
IdentitiesIn(lists) ==
    {Identity(lists[l][r]) : <<l, r>> \in {p \in (1..Len(lists)) \X Ranks :
                                              p[2] <= Len(lists[p[1]])}}

\* C28: _rrf_fuse returns each identity (source, heading, content) of its
\* lists once, with the sum of 1/(60 + r) over the ranks r at which it
\* stands, by non-increasing score; no lists give no result; for
\* [[b, a], [c, b]] the order is b (1/61 + 1/62), c (1/61), a (1/62).
C28_FusionSumsReciprocalRanks ==
    call.op = "rrf_fuse" =>
        LET lists == call.arg
            ret == call.ret
        IN /\ {Identity(ret[i]) : i \in 1..Len(ret)} = IdentitiesIn(lists)
           /\ Len(ret) = Cardinality(IdentitiesIn(lists))
           /\ \A i \in 1..Len(ret) :
                 ret[i].score = SumOfReciprocals(PlacesOf(lists, Identity(ret[i])))
           /\ \A i, j \in 1..Len(ret) : i < j => ret[i].score >= ret[j].score
           /\ (\A l \in 1..Len(lists) : lists[l] = <<>>) => ret = <<>>
           /\ lists = << <<ChunkB, ChunkA>>, <<ChunkC, ChunkB>> >> =>
                 /\ [i \in 1..3 |-> Identity(ret[i])] =
                       <<Identity(ChunkB), Identity(ChunkC), Identity(ChunkA)>>
                 /\ ret[1].score = (RrfDen \div 61) + (RrfDen \div 62)
                 /\ ret[2].score = RrfDen \div 61
                 /\ ret[3].score = RrfDen \div 62
                 /\ ret[1].score > ret[2].score /\ ret[2].score > ret[3].score

\* the scenario of the specification: [[b, a], [c, b]] puts b first
C28_Witness ==
    /\ call.op = "rrf_fuse"
    /\ call.arg = << <<ChunkB, ChunkA>>, <<ChunkC, ChunkB>> >>
    /\ Len(call.ret) = 3
    /\ Identity(call.ret[1]) = Identity(ChunkB)

(***************************************************************************)
(* MemorySearchEngine.search: the lexical ranking, the vector ranking and  *)
(* their fusion.  BM25Okapi.get_scores, embed_query and the distances of   *)
(* the vector table are collaborators: their answers are inputs.           *)
(***************************************************************************)
MaxTopK == 2      \* the top_k of a search

\* the scores get_scores can give a chunk: none, low, high
ScoreValues == 0..2

Queries == {<<>>, <<"x">>}

\* fault: a slice that cuts nothing
NotTruncated(results, top_k) == results

\* results[:top_k]
Truncated(results, top_k) == SubSeq(results, 1, Min(top_k, Len(results)))

\* _bm25_search(query, top_k) of the engine e, given the scores of
\* get_scores(tokens)
Bm25Search(e, query, top_k, scores) ==
    IF e.index = NoIndex \/ e.chunks = <<>> THEN <<>>
    ELSE IF Tokenize(query) = <<>> THEN <<>>
    ELSE LET zipped == [i \in 1..Len(e.chunks) |->
                          Scored(e.chunks[i], scores[i])]
             scored == SelectSeq(zipped, LAMBDA c : c.score > 0)
         IN  SubSeq(SortedByScore(<<>>, scored), 1, Min(top_k, Len(SortedByScore(<<>>, scored))))

\* the rows search_similar can join in the store db: a chunk with its vector
Rows(db) == {r \in db.chunks : \E v \in db.vec_chunks : v.id = r.id}

\* the answers of search_similar(query_emb, top_k): the k nearest rows, in
\* the order of distances the model does not compute
Nearest(top_k) ==
    LET n == Min(top_k, Cardinality(Rows(Db)))
    IN  {s \in [1..n -> Rows(Db)] : \A i, j \in 1..n : i # j => s[i] # s[j]}

\* what embed_query and search_similar do in one _vector_search: they raise,
\* or search_similar answers with rows
Answers(top_k) ==
    {[raised |-> TRUE, rows |-> <<>>]} \cup
    {[raised |-> FALSE, rows |-> s] : s \in Nearest(top_k)}

\* _vector_search(query, top_k); the similarity 1/(1 + distance) of a row is
\* read by nobody
VectorSearch(e, query, top_k, answer) ==
    IF ~e.vector_enabled THEN <<>>
    ELSE IF answer.raised THEN <<>>
    ELSE [i \in 1..Len(answer.rows) |-> Scored(answer.rows[i], 1)]

\* search(query, top_k) of the engine e
HybridSearch(e, query, top_k, scores, answer) ==
    LET bm25_results == Bm25Search(e, query, top_k * 2, scores)
        vector_results == VectorSearch(e, query, top_k * 2, answer)
    IN  IF ~e.vector_enabled THEN Truncated(bm25_results, top_k)
        ELSE IF vector_results = <<>> THEN Truncated(bm25_results, top_k)
        ELSE SubSeq(RrfFuse(<<bm25_results, vector_results>>), 1,
                    Min(top_k, Len(RrfFuse(<<bm25_results, vector_results>>))))

\* engine.search(query, top_k) with the answers of the collaborators
Search(query, top_k, scores, answer) ==
    /\ call' = [op |-> "search", query |-> query, top_k |-> top_k,
                scores |-> scores, answer |-> answer,
                vector_results |-> VectorSearch(engine, query, top_k * 2, answer),
                ret |-> HybridSearch(engine, query, top_k, scores, answer)]
    /\ UNCHANGED <<tvars, evars, dvars, now, qvars, mvars>>

\* a search changes nothing that a search reads: a search that follows a
\* search reaches the states the first one could reach, and is left out
SearchNext ==
    \/ \E ok \in BOOLEAN : EnableVectorSearch(ok)
    \/ \E content \in Documents : WriteMemoryFile(content)
    \/ \E ok \in BOOLEAN : BuildIndex(ok)
    \/ /\ call.op # "search"
       /\ \E query \in Queries, top_k \in 1..MaxTopK :
             \E scores \in [1..Len(engine.chunks) -> ScoreValues] :
                \E answer \in Answers(top_k * 2) :
                   Search(query, top_k, scores, answer)

SpecSearch == Init /\ [][SearchNext]_vars

(***************************************************************************)
(* Properties of search.                                                   *)
(***************************************************************************)
\* the latest call was a search that got nothing from the vector side
LexicalOnly == call.op = "search" /\ (~engine.vector_enabled \/ call.vector_results = <<>>)

\* C27: search(query, top_k) returns the first top_k lexical results, the
\* same items in the same order, whenever vector search is disabled, gave
\* nothing or failed; every search returns, with at most top_k items.
C27_FallsBackToLexical ==
    call.op = "search" =>
        /\ Len(call.ret) <= call.top_k
        /\ LexicalOnly =>
              call.ret = Bm25Search(engine, call.query, call.top_k, call.scores)

\* a search whose vector side raised, with more lexical results than top_k
C27_Witness ==
    /\ call.op = "search"
    /\ engine.vector_enabled
    /\ call.answer.raised
    /\ Len(Bm25Search(engine, call.query, Len(engine.chunks), call.scores)) > call.top_k
    /\ Len(call.ret) = call.top_k

(***************************************************************************)
(* MarkdownMemoryService.upsert_section: MEMORY.md parsed into sections by *)
(* _HEADING_RE = ^(#)\s+(.+)$ (MULTILINE), one section replaced or         *)
(* appended, the sections put together again.                              *)
(***************************************************************************)
MaxFileLen == 18  \* characters of MEMORY.md after an upsert_section

NoHeading == <<"None">>

RECURSIVE FirstHeading(_)
\* the loop of _extract_heading over the lines
FirstHeading(lines) ==
    IF lines = <<>> THEN NoHeading
    ELSE LET stripped == Strip(Head(lines))
         IN IF StartsWith(stripped, <<"#", " ">>)
            THEN Strip(SubSeq(stripped, 3, Len(stripped)))
            ELSE IF stripped # <<>> /\ ~StartsWith(stripped, <<"#">>)
            THEN NoHeading
            ELSE FirstHeading(Tail(lines))

\* _extract_heading(text)
ExtractHeading(text) == FirstHeading(SplitLines(text))

\* the last place of the line that holds place p
LineEnd(t, p) ==
    IF \E i \in p..Len(t) : t[i] = "\n"
    THEN (CHOOSE i \in p..Len(t) : t[i] = "\n" /\ \A j \in p..(i - 1) : t[j] # "\n") - 1
    ELSE Len(t)

\* the places where \s+ can end for a match of _HEADING_RE that starts at p:
\* "#" at p, whitespace (line ends included) up to q, and a character that
\* "." matches behind it
SpaceEnds(t, p) ==
    {q \in (p + 1)..(Len(t) - 1) :
        /\ \A j \in (p + 1)..q : t[j] \in Whitespace
        /\ t[q + 1] # "\n"}

\* ^ with MULTILINE
AtLineStart(t, p) == p = 1 \/ t[p - 1] = "\n"

\* the match of _HEADING_RE at p: \s+ takes all it can, (.+) the rest of the
\* line it ends in
HeadingMatch(t, p) ==
    LET q == CHOOSE x \in SpaceEnds(t, p) : \A y \in SpaceEnds(t, p) : y <= x
    IN  [start |-> p, end |-> LineEnd(t, q + 1),
         heading |-> Strip(SubSeq(t, q + 1, LineEnd(t, q + 1)))]

RECURSIVE Matches(_, _)
\* _HEADING_RE.finditer(text), from place p on
Matches(t, p) ==
    IF p > Len(t) THEN <<>>
    ELSE IF AtLineStart(t, p) /\ t[p] = "#" /\ SpaceEnds(t, p) # {}
    THEN <<HeadingMatch(t, p)>> \o Matches(t, HeadingMatch(t, p).end + 1)
    ELSE Matches(t, p + 1)

\* _parse_sections(text): (heading, raw_block) for each match, and for what
\* stands before the first one
ParseSections(text) ==
    IF Strip(text) = <<>> THEN <<>>
    ELSE LET matches == Matches(text, 1)
             preamble == SubSeq(text, 1, matches[1].start - 1)
         IN IF matches = <<>> THEN <<[heading |-> <<>>, block |-> text]>>
            ELSE (IF Strip(preamble) # <<>>
                  THEN <<[heading |-> <<>>, block |-> preamble]>> ELSE <<>>)
                 \o [i \in 1..Len(matches) |->
                       [heading |-> matches[i].heading,
                        block |-> SubSeq(text, matches[i].start,
                                         IF i < Len(matches)
                                         THEN matches[i + 1].start - 1
                                         ELSE Len(text))]]

\* _reassemble(sections)
Reassemble(sections) ==
    Join([i \in 1..Len(sections) |-> Strip(sections[i].block)], <<"\n", "\n">>)
        \o <<"\n">>

\* the sections with the first one headed heading replaced by the text, or
\* with the text as a new last one
Upserted(sections, heading, text) ==
    IF \E i \in 1..Len(sections) : sections[i].heading = heading
    THEN LET i == CHOOSE k \in 1..Len(sections) :
                     /\ sections[k].heading = heading
                     /\ \A j \in 1..(k - 1) : sections[j].heading # heading
         IN [sections EXCEPT ![i] = [heading |-> heading, block |-> text]]
    ELSE Append(sections, [heading |-> heading, block |-> text])

\* the texts handed to upsert_section: sections A and B, a section with
\* blanks around it, a text without a heading, a text with two headings
UpsertTexts ==
    {<<"#", " ", "A", "\n", "y">>,
     <<"#", " ", "B", "\n", "y">>,
     <<" ", "#", " ", "B", "\n", "x", "\n">>,
     <<"x">>,
     <<"#", " ", "A", "\n", "x", "\n", "#", " ", "B", "\n", "y">>}

\* MEMORY.md as read by upsert_section
Existing == IF files[MemoryFile] = NoFile THEN <<>> ELSE files[MemoryFile]

\* upsert_section(text)
UpsertSection(text) ==
    /\ LET t == Strip(text)
           heading == ExtractHeading(t)
       IN  files' = [files EXCEPT ![MemoryFile] =
                        IF heading = NoHeading
                        THEN Existing \o <<"\n">> \o t \o <<"\n">>
                        ELSE Reassemble(Upserted(ParseSections(Existing), heading, t))]
    /\ Len(files'[MemoryFile]) <= MaxFileLen
    /\ dirty' = TRUE
    /\ call' = [op |-> "upsert_section", arg |-> text]
    /\ UNCHANGED <<tvars, engine, persisted_event_ids, dvars, now, qvars, mvars>>

\* the documents of write_memory_file, and one whose last line is a lone "#"
Edited == Documents \cup {<<"#", " ", "A", "\n", "x", "\n", "#">>}

UpsertNext ==
    \/ \E content \in Edited : WriteMemoryFile(content)
    \/ \E text \in UpsertTexts : UpsertSection(text)

SpecUpsert == Init /\ [][UpsertNext]_vars

(***************************************************************************)
(* Properties of upsert_section.                                           *)
(***************************************************************************)
\* the sections of a document: heading and content (the block without the
\* blanks around it)
SectionsOf(doc) ==
    LET s == ParseSections(doc)
    IN  [i \in 1..Len(s) |-> [heading |-> s[i].heading, content |-> Strip(s[i].block)]]

\* a text that starts with a top-level heading and has no other
SectionText(t) ==
    /\ StartsWith(t, <<"#", " ">>)
    /\ ExtractHeading(t) # NoHeading
    /\ \A i \in 2..Len(SplitLines(t)) : ~StartsWith(SplitLines(t)[i], <<"#">>)

UniqueHeadings(s) == \A i, j \in 1..Len(s) : s[i].heading = s[j].heading => i = j

\* one upsert_section of a section text headed H: the first section headed H
\* is replaced where it stands, or the text becomes the new last section; the
\* other sections stay as they are and where they are; unique headings stay
\* unique, so that one section is headed H and holds the text
UpsertReplacesOrAppends ==
    LET text == Strip(call'.arg)
        H == ExtractHeading(text)
        before == SectionsOf(Existing)
        after == SectionsOf(files'[MemoryFile])
        new == [heading |-> H, content |-> text]
    IN  (call'.op = "upsert_section" /\ UpsertSection(call'.arg) /\ SectionText(text)) =>
           /\ IF \E i \in 1..Len(before) : before[i].heading = H
              THEN /\ Len(after) = Len(before)
                   /\ \E i \in 1..Len(before) :
                         /\ before[i].heading = H
                         /\ \A j \in 1..(i - 1) : before[j].heading # H
                         /\ after = [before EXCEPT ![i] = new]
              ELSE after = Append(before, new)
           /\ UniqueHeadings(before) =>
                 /\ UniqueHeadings(after)
                 /\ \E i \in 1..Len(after) : after[i] = new

\* C30: upsert_section with a text that starts with a top-level heading H
\* replaces the section headed H in place, leaving every other section's
\* heading, content and order unchanged, or appends the text as a new last
\* section when there is none; upserts on a document with unique headings
\* leave one section for each upserted heading, holding the latest text.
C30_UpsertReplacesInPlace == [][UpsertReplacesOrAppends]_vars

(***************************************************************************)
(* MarkdownMemoryService: the flush of a session into the daily log, and   *)
(* search_memory, which rebuilds the index when the flag is set.           *)
(***************************************************************************)
MaxLogLen == 20   \* characters of the daily log after a flush

\* the events of a session: [id, text]; an event can come without an id and
\* with a blank text
Event1 == [id |-> "e1", text |-> <<"x">>]
Event2 == [id |-> "", text |-> <<"y", " ">>]
Event3 == [id |-> "e3", text |-> <<" ">>]

FlushedSessions == {<<>>, <<Event1>>, <<Event3>>, <<Event1, Event2>>}

\* fault: a flush that does not look at the ids it has persisted
NothingPersisted(events) == events

\* the events of the loop that are not skipped: without an id, or with an id
\* that is not recorded
NotPersisted(events) ==
    SelectSeq(events, LAMBDA e : ~(e.id # "" /\ e.id \in persisted_event_ids))

\* "**[HH:MM:SS] author**: text", with "*" for the stamp and the author
Entry(e) == <<"*", " ">> \o Strip(e.text)

\* new_entries: one entry for each event of the loop whose text is not blank
NewEntries(events) ==
    LET kept == SelectSeq(NotPersisted(events), LAMBDA e : Strip(e.text) # <<>>)
    IN  [i \in 1..Len(kept) |-> Entry(kept[i])]

\* what a flush writes: "# Session Log - date" ("L") when the log is new,
\* "## HH:MM" ("T"), the entries
Appended(new_entries) ==
    (IF files[LogFile] = NoFile THEN <<"#", " ", "L", "\n", "\n">> ELSE <<>>)
    \o <<"#", "#", " ", "T", "\n", "\n">>
    \o Join(new_entries, <<"\n">>) \o <<"\n", "\n">>

\* add_session_to_memory(session)
AddSessionToMemory(events) ==
    /\ IF events = <<>>
       THEN UNCHANGED <<files, dirty, persisted_event_ids>>
       ELSE /\ persisted_event_ids' = persisted_event_ids \cup
                   {events[i].id : i \in {j \in 1..Len(events) : events[j].id # ""}}
            /\ IF NewEntries(events) # <<>>
               THEN /\ files' = [files EXCEPT ![LogFile] =
                                    (IF @ = NoFile THEN <<>> ELSE @)
                                    \o Appended(NewEntries(events))]
                    /\ dirty' = TRUE
               ELSE UNCHANGED <<files, dirty>>
    /\ call' = [op |-> "add_session_to_memory", arg |-> events,
                entries |-> IF events = <<>> THEN <<>> ELSE NewEntries(events)]
    /\ UNCHANGED <<tvars, engine, dvars, now, qvars, mvars>>

\* fault: a rebuild that is never due
NeverDue == FALSE

\* _rebuild_index_if_dirty: if self._dirty
RebuildDue == dirty

\* search_memory uses top_k = 5
TopK == 5

RECURSIVE ById(_)
\* rows in the order of their ids
ById(rows) ==
    IF rows = {} THEN <<>>
    ELSE LET r == CHOOSE x \in rows : \A y \in rows : x.id <= y.id
         IN  <<r>> \o ById(rows \ {r})

\* search_memory(query): _rebuild_index_if_dirty, then search(query, 5) on
\* the engine as it is then; ok is the outcome of embed_texts in a rebuild,
\* get_scores gives every chunk the score v, the vector side raises or ranks
\* the rows by id
SearchMemory(query, ok, v, raised) ==
    /\ IF RebuildDue
       THEN Rebuilding(ok) /\ dirty' = FALSE
       ELSE ok /\ UNCHANGED <<tvars, engine, dirty>>
    /\ LET e == IF RebuildDue THEN RebuiltEngine ELSE engine
           db == IF RebuildDue THEN RebuiltStore(ok) ELSE Db
           scores == [i \in 1..Len(e.chunks) |-> v]
           answer == [raised |-> raised,
                      rows |-> IF raised THEN <<>> ELSE ById(Rows(db))]
       IN  call' = [op |-> "search_memory", query |-> query, rebuilt |-> RebuildDue,
                    scores |-> scores, answer |-> answer,
                    ret |-> HybridSearch(e, query, TopK, scores, answer)]
    /\ UNCHANGED <<files, persisted_event_ids, dvars, now, qvars, mvars>>

\* the daily log is followed while it has at most n characters
LogWithin(n) == Len(files'[LogFile]) <= n

\* MEMORY.md is written by write_memory_file and by upsert_section, the log
\* by the flush; search_memory reads them.  One document with two sections
\* is written, section A or B upserted, "x" searched for and found in every
\* chunk.
MemoryNext ==
    \/ \E ok \in BOOLEAN : EnableVectorSearch(ok)
    \/ WriteMemoryFile(<<"#", " ", "A", "\n", "x", "\n", "#", " ", "B", "\n", "y", "\n">>)
    \/ \E text \in {<<"#", " ", "A", "\n", "y">>, <<"#", " ", "B", "\n", "y">>} :
          UpsertSection(text)
    \/ \E events \in FlushedSessions :
          AddSessionToMemory(events) /\ LogWithin(MaxLogLen)
    \/ \E ok \in BOOLEAN, raised \in BOOLEAN :
          SearchMemory(<<"x">>, ok, 1, raised)

SpecMemory == Init /\ [][MemoryNext]_vars

(***************************************************************************)
(* Properties of the dirty flag.                                           *)
(***************************************************************************)
\* the calls that change a memory document
Mutation ==
    \/ call'.op \in {"write_memory_file", "upsert_section"}
    \/ call'.op = "add_session_to_memory" /\ call'.entries # <<>>

\* the index of the engine is the one build_index makes of the documents
IndexCurrent ==
    /\ engine.chunks = FreshChunks
    /\ engine.index = IndexOver(FreshChunks)

\* C26: every call that changes a memory document (a flush that appends
\* entries, upsert_section, write_memory_file) sets the dirty flag;
\* search_memory rebuilds the index and clears the flag before it searches
\* whenever the flag is set: each search runs on the index of the documents
\* as they are after the latest change.
C26_SearchSeesLatestDocuments ==
    /\ [][(files' # files \/ Mutation) => dirty']_vars
    /\ [][(call'.op = "search_memory" /\ call' # call /\ dirty)
             => (call'.rebuilt /\ ~dirty')]_vars
    /\ [](call.op = "search_memory" => (~dirty /\ IndexCurrent))
    /\ [](~dirty => IndexCurrent)

\* a search after a flush, an upsert and an earlier search: the index was
\* rebuilt and holds the chunks of both documents
C26_Witness ==
    /\ call.op = "search_memory"
    /\ call.rebuilt
    /\ ~dirty
    /\ files[LogFile] # NoFile
    /\ files[MemoryFile] # NoFile
    /\ \E i, j \in 1..Len(engine.chunks) :
          /\ engine.chunks[i].source_file = MemoryFile
          /\ engine.chunks[j].source_file = LogFile
          /\ engine.chunks[i].content = <<"y">>


\* ---------------------------------------------------------------------------
\* Calls that never return.  _process awaits run_async (which runs the agent
\* and, inside its tools, the embedding calls) and _rotate_session awaits the
\* curator and the memory flush, each without a timeout: no wait_for, no
\* cancellation.  A call that never returns leaves the awaiting task at its
\* await for ever, which the model shows as the position "hung", from which
\* no step of that task is enabled; the key's lock stays with the task.

\* _process: the agent invocation (or an embedding call made by one of its
\* tools) never returns
ProcessRunAsyncHangs(l) ==
    /\ worker[l].pc = "run_async"
    /\ worker' = [worker EXCEPT ![l].pc = "hung"]
    /\ UNCHANGED <<queues, sessions, last_activity, activity_order, chat_locks,
                   reaper, now, store, counter, deleted, replaced, installed,
                   enqueued, failures, unfinished>>
    /\ UNCHANGED <<qvars, mvars, svars>>

\* _rotate_session: the curation or the flush never returns
RotateHangs ==
    /\ reaper.pc \in {"curate", "flush"}
    /\ reaper' = [reaper EXCEPT !.pc = "hung"]
    /\ UNCHANGED <<queues, sessions, last_activity, activity_order, chat_locks,
                   worker, now, store, counter, deleted, replaced, installed,
                   enqueued, failures, unfinished>>
    /\ UNCHANGED <<qvars, mvars, svars>>

\* the dispatcher whose collaborator calls return without raising, or never
\* return
HangNext ==
    \/ ReturningNext
    \/ \E l \in Lanes : ProcessRunAsyncHangs(l)
    \/ RotateHangs

\* the event loop is fair to the tasks that can run; whether a call hangs is
\* up to the collaborator
LiveSpecHang ==
    /\ Init
    /\ [][HangNext]_vars
    /\ \A l \in Lanes : WF_vars(Worker(l) /\ Returning)
    /\ WF_vars(Reaper /\ Returning)

\* C31: a call that never returns, in an agent invocation, an embedding call
\* or a rotation's curation or flush, does not block a lane worker for ever:
\* each worker is again and again back at the get of its lane's next item.
C31_HangDoesNotBlockWorker ==
    \A l \in Lanes : []<>(worker[l].pc = "get")

\* a worker waits for the lock of a key whose rotation hangs
C31_BlockedByHungRotation ==
    /\ reaper.pc = "hung"
    /\ \E l \in Lanes : worker[l].pc = "lock"


(***************************************************************************)
(* Dispatcher.shutdown(), step by step.  It is run when the dispatcher has  *)
(* stopped, in whatever state its tasks were left; `call` holds the        *)
(* position of the running shutdown: the keys still to visit (the first is  *)
(* the one being handled) and the collaborator calls made so far.          *)
(***************************************************************************)
\* the orders in which list(self._sessions) may give the keys that have a
\* session
KeyOrders ==
    {ks \in UNION {[1..n -> WithSession] : n \in 0..Cardinality(Keys)} :
        /\ Len(ks) = Cardinality(WithSession)
        /\ Range(ks) = WithSession}

\* the first call made for a key
FirstStep == IF CuratorConfigured THEN "curate" ELSE "get_session"

\* shutdown is at collaborator call `step` for the first of its keys
ShutdownAt(step) ==
    /\ main = "shutdown"
    /\ call.op = "shutdown"
    /\ call.pc = step

\* the call made at the current position, with its outcome
ShutdownLogged(step, ok) ==
    Append(call.log, [step |-> step, chat_id |-> Head(call.keys),
                      session_id |-> sessions[Head(call.keys)], ok |-> ok])

\* fault: a shutdown whose loop ends with its first key
ReturnsAfterFirstKey(log) ==
    [op |-> "shutdown", pc |-> "returned", keys |-> <<>>, log |-> log]

\* the loop goes on to the next key, or shutdown returns
NextKey(log) ==
    [op |-> "shutdown",
     pc |-> IF Tail(call.keys) = <<>> THEN "returned" ELSE FirstStep,
     keys |-> Tail(call.keys),
     log |-> log]

\* shutdown(): returns at once when there is no session, otherwise takes
\* the list of the keys
ShutdownEnter ==
    /\ main = "running"
    /\ call = NoCall
    /\ \E ks \in KeyOrders :
         /\ call' = [op |-> "shutdown",
                     pc |-> IF ks = <<>> THEN "returned" ELSE FirstStep,
                     keys |-> ks, log |-> <<>>]
         /\ main' = IF ks = <<>> THEN "exited" ELSE "shutdown"
    /\ UNCHANGED <<memory, dvars, now, qvars, tvars, evars>>

\* the curator run for the key: it returns or raises, and the flush follows
ShutdownCurate ==
    /\ ShutdownAt("curate")
    /\ \E ok \in Outcomes :
         /\ failures' = Failed(ok)
         /\ call' = [call EXCEPT !.pc = "get_session",
                                 !.log = ShutdownLogged("curate", ok)]
    /\ memory' = memory \cup
                   {[step |-> "curate", session_id |-> sessions[Head(call.keys)]]}
    /\ UNCHANGED <<queues, sessions, last_activity, activity_order, chat_locks,
                   worker, reaper, now, store, counter, deleted, replaced,
                   installed, enqueued, unfinished>>
    /\ UNCHANGED <<main, qvars, tvars, evars>>

\* get_session returns the session, or None for an id the store does not
\* hold, or raises; only a session found is flushed
ShutdownGetSession ==
    /\ ShutdownAt("get_session")
    /\ \E ok \in Outcomes :
         /\ failures' = Failed(ok)
         /\ IF ok /\ sessions[Head(call.keys)] \in store
            THEN /\ call' = [call EXCEPT !.pc = "flush",
                                         !.log = ShutdownLogged("get_session", ok)]
                 /\ main' = main
            ELSE /\ call' = NextKey(ShutdownLogged("get_session", ok))
                 /\ main' = IF Tail(call.keys) = <<>> THEN "exited" ELSE main
    /\ UNCHANGED <<queues, sessions, last_activity, activity_order, chat_locks,
                   worker, reaper, now, store, counter, deleted, replaced,
                   installed, enqueued, unfinished>>
    /\ UNCHANGED <<memory, qvars, tvars, evars>>

\* add_session_to_memory returns or raises; the loop goes on either way
ShutdownFlush ==
    /\ ShutdownAt("flush")
    /\ \E ok \in Outcomes :
         /\ failures' = Failed(ok)
         /\ call' = NextKey(ShutdownLogged("flush", ok))
    /\ main' = IF Tail(call.keys) = <<>> THEN "exited" ELSE main
    /\ memory' = memory \cup
                   {[step |-> "flush", session_id |-> sessions[Head(call.keys)]]}
    /\ UNCHANGED <<queues, sessions, last_activity, activity_order, chat_locks,
                   worker, reaper, now, store, counter, deleted, replaced,
                   installed, enqueued, unfinished>>
    /\ UNCHANGED <<qvars, tvars, evars>>

ShutdownStep ==
    \/ ShutdownEnter
    \/ ShutdownCurate
    \/ ShutdownGetSession
    \/ ShutdownFlush

\* the dispatcher runs, fed by the chat lane and its collaborator calls
\* returning, is stopped at some moment, and shutdown() is run, with calls
\* that return or raise
ShutdownNext ==
    \/ main = "running" /\ LiveNext /\ Returning
    \/ ShutdownStep

SpecShutdown == Init /\ [][ShutdownNext]_vars

\* the steps of the calls that shutdown made for key k, in order
CallsFor(k) ==
    LET RECURSIVE steps(_)
        steps(i) ==
            IF i > Len(call.log) THEN <<>>
            ELSE (IF call.log[i].chat_id = k THEN <<call.log[i]>> ELSE <<>>)
                 \o steps(i + 1)
    IN steps(1)

\* what shutdown has to call for key k: the curator, then get_session, then,
\* for a session that was found, the flush; whatever raised
VisitedOnce(k) ==
    LET cs == CallsFor(k)
        found == cs[2].ok /\ sessions[k] \in store
    IN  /\ Len(cs) >= 2
        /\ Len(cs) = IF found THEN 3 ELSE 2
        /\ cs[1].step = "curate"
        /\ cs[2].step = "get_session"
        /\ found => cs[3].step = "flush"
        /\ \A i \in 1..Len(cs) : cs[i].session_id = sessions[k]

\* shutdown has returned: every key of the session map was visited once, its
\* calls made in order, and the calls of one key are not interleaved with
\* those of another
ShutdownVisitsAll ==
    (call.op = "shutdown" /\ call.pc = "returned") =>
        /\ \A k \in WithSession : VisitedOnce(k)
        /\ \A i \in 1..Len(call.log) : call.log[i].chat_id \in WithSession
        /\ \A i, j \in 1..Len(call.log) :
              (i < j /\ call.log[i].chat_id = call.log[j].chat_id) =>
                  \A m \in i..j : call.log[m].chat_id = call.log[i].chat_id

\* a step of shutdown changes nothing of the dispatcher but the count of the
\* calls that raised: no session is created or deleted, and the session map
\* and the last-activity map stay as they are
ShutdownFrame ==
    ShutdownStep =>
        UNCHANGED <<sessions, last_activity, activity_order, store, counter,
                    deleted, replaced, installed, queues, chat_locks>>

\* C32: shutdown() visits every key of the session map once and runs, for
\* each, the curator and then the fetch and the flush of its session, in
\* that order (the flush for a session that the store still holds and whose
\* fetch returned); it deletes and creates no session and leaves the session
\* map and the last-activity map unchanged; a call that raises for one key
\* prevents neither the flush of that key nor the handling of the others.
C32_ShutdownVisitsEveryKey ==
    /\ []ShutdownVisitsAll
    /\ [][ShutdownFrame]_vars

\* shutdown has returned after two keys: the curator raised for the first,
\* whose session was flushed all the same, and so was the second key's
C32_Witness ==
    /\ call.op = "shutdown"
    /\ call.pc = "returned"
    /\ Len(call.log) = 6
    /\ ~call.log[1].ok
    /\ call.log[3].step = "flush"
    /\ call.log[6].step = "flush"
    /\ call.log[6].chat_id # call.log[1].chat_id


\* ---------------------------------------------------------------------------
\* Idleness is measured from the start of a processing: _process stamps
\* _last_activity when it has the lock, before the agent runs, and nothing
\* stamps it when the processing ends.

\* the worker of lane l is running the agent, or sending the reply, for
\* session s at time t: the processing of the item has not finished yet
ProcessingAt(l, s, t) ==
    /\ worker[l].pc \in {"run_async", "send_reply"}
    /\ worker[l].session_id = s
    /\ now = t

\* no delete_session call has been made for session s
NotRotated(s) == deleted[s] = 0

\* C33: rotation deletes a key's session only if at least the idle timeout
\* has elapsed since the most recent processing for the key finished: a
\* session that is in processing at time t (and so finishes at t or later)
\* is not deleted as long as the clock is below t + IdleTimeout.
C33_NoRotationSoonAfterProcessing ==
    \A s \in SessionIds : \A t \in 0..MaxTime :
        [](ProcessingAt("chat", s, t) =>
              [](now < t + IdleTimeout => NotRotated(s)))


\* the session ids that the session map holds
Mapped == {sessions[k] : k \in WithSession}

\* C34: whenever no rotation is in progress, the sessions that the dispatcher
\* created and that are still undeleted in the session store are the ones
\* that the keys map to, at most one for each key, also after rotations whose
\* delete_session call raised.
C34_OneUndeletedSessionPerKey ==
    (reaper.pc \notin RotationSteps) => store \subseteq Mapped


\* the places (batch, position) at which the message of push n was handed to
\* on_batch
HandedOver(n) ==
    {<<b, j>> \in (1..Len(delivered)) \X (1..MaxPushes) :
        /\ j <= Len(delivered[b].messages)
        /\ delivered[b].messages[j].id = n}

\* the places of the buffers at which the message of push n waits
Waiting(n) ==
    {<<k, i>> \in Keys \X (1..MaxPushes) :
        /\ i <= Len(buffers[k])
        /\ buffers[k][i].id = n}

\* every message pushed is at one place: it waits in a buffer, or it was
\* handed to on_batch, in one batch
InOnePlace ==
    \A n \in 1..Len(pushlog) :
        Cardinality(HandedOver(n)) + Cardinality(Waiting(n)) = 1

\* C35: every message pushed to the queue is delivered to the batch callback
\* in exactly one batch: none is dropped, none is handed over twice, whatever
\* the interleaving of pushes and timers; and, the pushes to its key having
\* stopped, it is eventually delivered.
C35_DeliveredExactlyOnce ==
    /\ []InOnePlace
    /\ \A n \in 1..MaxPushes :
          (Len(pushlog) >= n) ~> (Cardinality(HandedOver(n)) = 1)

\* all the pushes were made and delivered, in more than one batch, one
\* timer having been cancelled by a later push
C35_Witness ==
    /\ Len(pushlog) = MaxPushes
    /\ \A n \in 1..MaxPushes : Cardinality(HandedOver(n)) = 1
    /\ Len(delivered) >= 2
    /\ \E t \in 1..MaxPushes : tasks[t].pc = "cancelled"


\* the timers of key k that are pending: armed, not cancelled, not yet fired
PendingTimers(k) ==
    {t \in 1..MaxPushes : tasks[t].chat_id = k /\ tasks[t].pc = "sleep"}

\* key k is buffering with its one timer armed, or idle with none
BufferingIffArmed(k) ==
    /\ (buffers[k] # <<>>) <=> (Cardinality(PendingTimers(k)) = 1)
    /\ Cardinality(PendingTimers(k)) <= 1
    /\ PendingTimers(k) = IF timers[k] = NoTimer THEN {} ELSE {timers[k]}

\* no batch handed to on_batch is empty
NoEmptyBatch ==
    /\ \A b \in 1..Len(delivered) : delivered[b].messages # <<>>
    /\ \A t \in 1..MaxPushes : tasks[t].pc = "callback" => tasks[t].messages # <<>>

\* C36: outside the critical sections of push and of the drain (each is one
\* step), a key has a non-empty buffer if and only if it has exactly one
\* pending timer, and so the callback is never invoked with an empty batch.
C36_BufferIffOneTimer ==
    /\ \A k \in Keys : BufferingIffArmed(k)
    /\ NoEmptyBatch

\* a key buffers two messages under one pending timer, the timer of the
\* first of them cancelled, while the callback of its earlier batch runs
C36_Witness ==
    \E k \in Keys :
        /\ Len(buffers[k]) = 2
        /\ Cardinality(PendingTimers(k)) = 1
        /\ \E t \in 1..MaxPushes : tasks[t].chat_id = k /\ tasks[t].pc = "cancelled"
        /\ \E t \in 1..MaxPushes : tasks[t].chat_id = k /\ tasks[t].pc = "callback"


(***************************************************************************)
(* The queue feeding the chat lane.  main() builds the MessageQueue with   *)
(* on_batch = dispatcher.enqueue_chat, whose put on the unbounded          *)
(* asyncio.Queue does not suspend: from the end of its sleep to the put,   *)
(* _debounce_fire runs without giving up the event loop.                   *)
(***************************************************************************)
\* _debounce_fire after its sleep: the drain, then enqueue_chat puts the
\* WorkItem of the batch on the chat lane
FireAndEnqueue(t) ==
    /\ tasks[t].pc = "sleep"
    /\ now >= tasks[t].deadline
    /\ LET k == tasks[t].chat_id
           messages == buffers[k]
       IN /\ buffers' = Drained(k)
          /\ timers' = Disarmed(k)
          /\ IF messages # <<>>
             THEN /\ tasks' = [tasks EXCEPT ![t].pc = "callback",
                                            ![t].messages = messages]
                  /\ delivered' = Append(delivered,
                        [chat_id |-> k, messages |-> messages, task |-> t,
                         upto |-> Len(pushlog), item |-> enqueued + 1])
                  /\ enqueued' = enqueued + 1
                  /\ queues' = [queues EXCEPT !["chat"] =
                        Append(@, [chat_id |-> k, lane |-> "chat",
                                   id |-> enqueued + 1])]
                  /\ unfinished' = Put("chat")
             ELSE /\ tasks' = [tasks EXCEPT ![t].pc = "done"]
                  /\ UNCHANGED <<delivered, enqueued, queues, unfinished>>
    /\ UNCHANGED <<sessions, last_activity, activity_order, chat_locks, worker,
                   reaper, store, counter, deleted, replaced, installed,
                   failures>>
    /\ UNCHANGED <<pushlog, now, mvars, svars>>

\* the channel pushes, the timers fire into the chat lane, the heartbeat
\* scheduler enqueues on its own lane, and the two workers process with
\* collaborator calls that return; the heartbeat item is for the admin chat,
\* so the two workers meet on its lock; the pushes are bounded by MaxItems
PipelineNext ==
    \/ QueueTick
    \/ \E k \in Keys : (Len(pushlog) < MaxItems /\ Push(k))
    \/ \E t \in 1..MaxPushes : FireAndEnqueue(t)
    \/ \E t \in 1..MaxPushes : CallbackReturn(t)
    \/ EnqueueHeartbeat
    \/ \E l \in Lanes : (Worker(l) /\ Returning)

SpecPipeline == Init /\ [][PipelineNext]_vars

\* the WorkItem made of the batch that holds the message of push n
ItemOf(n) == delivered[BatchOf(n)].item

\* the WorkItem with id i was processed to its end
Processed(i) == i <= enqueued /\ i \notin Pending

\* the messages of one key are enqueued batch by batch in push order
EnqueuedInPushOrder ==
    \A m1, m2 \in 1..Len(pushlog) :
        (m1 < m2 /\ pushlog[m1].chat_id = pushlog[m2].chat_id /\ BatchOf(m2) # 0) =>
            /\ BatchOf(m1) # 0
            /\ BatchOf(m1) <= BatchOf(m2)
            /\ ItemOf(m1) <= ItemOf(m2)
            /\ (BatchOf(m1) = BatchOf(m2)) <=> (ItemOf(m1) = ItemOf(m2))

\* the item of a later batch is in the worker's hands, or processed, only
\* when the item of every earlier batch of its key has been processed
ProcessedInPushOrder ==
    \A m1, m2 \in 1..Len(pushlog) :
        ( /\ m1 < m2
          /\ pushlog[m1].chat_id = pushlog[m2].chat_id
          /\ BatchOf(m2) # 0
          /\ BatchOf(m1) # BatchOf(m2)
          /\ (worker["chat"].item.id = ItemOf(m2) \/ Processed(ItemOf(m2))) )
        => Processed(ItemOf(m1))

\* the chat worker takes the oldest item of its lane, and no other
TakesOldest ==
    (worker["chat"].pc = "get" /\ worker'["chat"].pc # "get") =>
        /\ worker'["chat"].item = Head(queues["chat"])
        /\ queues'["chat"] = Tail(queues["chat"])

\* C37: the messages of one key reach the agent in push order across
\* batches: of two messages pushed to a key that end up in different
\* batches, the WorkItem of the earlier one is enqueued on the chat lane, and
\* processed, before that of the later one, also while the callback of the
\* earlier batch has not returned when the later timer fires.
C37_PushOrderAcrossBatches ==
    /\ [](EnqueuedInPushOrder /\ LaneInOrder("chat") /\ ProcessedInPushOrder)
    /\ [][TakesOldest]_vars

\* the agent runs on the second batch of a key, the first one processed,
\* while the callback of the first batch has not returned
C37_Witness ==
    \E b1, b2 \in 1..Len(delivered) :
        /\ b1 < b2
        /\ delivered[b1].chat_id = delivered[b2].chat_id
        /\ tasks[delivered[b1].task].pc = "callback"
        /\ Processed(delivered[b1].item)
        /\ worker["chat"].pc = "run_async"
        /\ worker["chat"].item.id = delivered[b2].item


(***************************************************************************)
(* The whole system: the channel pushes, the timers fire into the chat     *)
(* lane, the heartbeat scheduler enqueues, both lane workers and the       *)
(* reaper run, and every collaborator call returns.  The number of         *)
(* WorkItems, buffered batches included, is bounded by MaxItems.           *)
(***************************************************************************)
\* the keys whose buffer holds messages
Buffering == {k \in Keys : buffers[k] # <<>>}

\* the clock runs over one debounce window and one idle timeout
SystemTime == Debounce + IdleTimeout

\* a push to key k leaves room among the MaxItems WorkItems
Room(k) ==
    /\ enqueued + Cardinality(Buffering \cup {k}) <= MaxItems
    /\ Len(pushlog) < MaxItems
    /\ now + Debounce <= SystemTime

\* enqueue_chat returns: the put on the unbounded queue does not raise
EnqueueChatReturns(t) == CallbackReturn(t) /\ tasks'[t].pc = "done"

SystemTick == now < SystemTime /\ QueueTick

SystemNext ==
    \/ SystemTick
    \/ \E k \in Keys : Room(k) /\ Push(k)
    \/ \E t \in 1..MaxPushes : FireAndEnqueue(t)
    \/ \E t \in 1..MaxPushes : EnqueueChatReturns(t)
    \/ enqueued + Cardinality(Buffering) < MaxItems /\ EnqueueHeartbeat
    \/ \E l \in Lanes : Worker(l) /\ Returning
    \/ Reaper /\ Returning

\* the event loop runs every task that can go on, and time passes
LiveSpecSystem ==
    /\ Init
    /\ [][SystemNext]_vars
    /\ WF_vars(SystemTick)
    /\ \A t \in 1..MaxPushes : WF_vars(FireAndEnqueue(t))
    /\ \A t \in 1..MaxPushes : WF_vars(EnqueueChatReturns(t))
    /\ \A l \in Lanes : WF_vars(Worker(l) /\ Returning)
    /\ WF_vars(Reaper /\ Returning)

\* the tasks that take dispatcher locks
Coroutines == Lanes \cup {"reaper"}

\* the places at which task p holds a dispatcher lock or waits for one
LockUses(p) ==
    {<<k, 0>> : k \in {j \in Keys : chat_locks[j].holder = p}}
      \cup {<<k, i>> \in Keys \X (1..Cardinality(Coroutines)) :
                i <= Len(chat_locks[k].waiters) /\ chat_locks[k].waiters[i] = p}

\* the task p is at a collaborator call inside its critical section: it waits
\* for no lock
AtCall(p) ==
    IF p = "reaper" THEN reaper.pc \in RotationSteps
    ELSE worker[p].pc \in {"create_session", "run_async", "send_reply"}

\* a task holds or awaits one dispatcher lock at most; only lane workers and
\* the reaper take dispatcher locks, so a timer task, whose queue lock is held
\* within single steps only, never has one; and whoever holds a lock that
\* others wait for is at a call, not at a lock
NoLockCycle ==
    /\ \A p \in Coroutines : Cardinality(LockUses(p)) <= 1
    /\ \A k \in Keys :
          /\ chat_locks[k].holder \in Coroutines \cup {Free}
          /\ Range(chat_locks[k].waiters) \subseteq Coroutines
          /\ chat_locks[k].holder # Free => AtCall(chat_locks[k].holder)
    /\ \A l \in Lanes : (worker[l].pc = "lock") <=> (LockUses(l) # {} /\ ~AtCall(l))
    /\ \A t \in 1..MaxPushes : tasks[t].pc \in {"none", "sleep", "callback", "done", "cancelled"}

\* no task waits for a dispatcher lock
NobodyWaits ==
    /\ \A l \in Lanes : worker[l].pc # "lock"
    /\ reaper.pc # "lock"
    /\ \A k \in Keys : chat_locks[k].waiters = <<>>

\* C38: no dispatcher or queue task holds, or waits for, more than one
\* per-key lock at a time, and none waits for a dispatcher lock while it
\* holds a queue lock, or the reverse; so, the collaborator calls returning,
\* the lane workers, the reaper and the timers never wait for each other for
\* ever: every wait for a lock ends, again and again nobody is waiting.
C38_NoDeadlock ==
    /\ []NoLockCycle
    /\ []<>NobodyWaits

\* the heartbeat worker waits for the lock of the key that the reaper
\* rotates, after the chat worker processed a batch that a timer enqueued
C38_Witness ==
    /\ Rotating(AdminChat)
    /\ chat_locks[AdminChat].waiters = <<"heartbeat">>
    /\ delivered # <<>>
    /\ delivered[1].chat_id = AdminChat
    /\ Processed(delivered[1].item)


(***************************************************************************)
(* The flushes of the memory service alone: sessions are flushed again and *)
(* again, as by a rotation and then by a shutdown, and a search clears the *)
(* dirty flag in between.                                                  *)
(***************************************************************************)
MaxFlushLog == 49

FlushNext ==
    \/ \E events \in FlushedSessions :
          AddSessionToMemory(events) /\ LogWithin(MaxFlushLog)
    \/ SearchMemory(<<"x">>, TRUE, 1, FALSE)

SpecFlush == Init /\ [][FlushNext]_vars

\* the number of places of the daily log at which character c stands
Occurrences(c) ==
    IF files[LogFile] = NoFile THEN 0
    ELSE Cardinality({i \in 1..Len(files[LogFile]) : files[LogFile][i] = c})

\* the step is a flush
IsFlush == call'.op = "add_session_to_memory" /\ ~UNCHANGED vars

\* the events of the flushed session that have an id which was persisted
\* before the flush
AlreadyPersisted ==
    {i \in 1..Len(call'.arg) :
        call'.arg[i].id # "" /\ call'.arg[i].id \in persisted_event_ids}

\* a flush writes no event again whose id it has persisted, and persists the
\* id of every event it has seen
SkipsPersisted ==
    IsFlush =>
        /\ \A i \in AlreadyPersisted :
              \A j \in 1..Len(call'.entries) : call'.entries[j] # Entry(call'.arg[i])
        /\ \A i \in 1..Len(call'.arg) :
              call'.arg[i].id # "" => call'.arg[i].id \in persisted_event_ids'

\* a flush that finds no new event with text writes nothing and leaves the
\* dirty flag as it is
NothingNewWritesNothing ==
    (IsFlush /\ call'.entries = <<>>) => (files' = files /\ dirty' = dirty)

\* C39: flushing is idempotent per event: over any sequence of
\* add_session_to_memory calls each session event that has an id is written
\* to the daily log at most once (the text "x" of the one such event with
\* text stands there once at most), and a flush that finds no new non-empty
\* event writes nothing and does not set the dirty flag.
C39_FlushIdempotentPerEvent ==
    /\ [](Occurrences("x") <= 1)
    /\ [][SkipsPersisted]_vars
    /\ [][NothingNewWritesNothing]_vars

\* a session was flushed twice, the second flush writing only the event
\* without id; after a search, the flush of a session whose one event is
\* persisted has written nothing and the flag is still clear
C39_Witness ==
    /\ call.op = "add_session_to_memory"
    /\ call.arg = <<Event1>>
    /\ call.entries = <<>>
    /\ ~dirty
    /\ Occurrences("x") = 1
    /\ Occurrences("y") = 2


(***************************************************************************)
(* The heartbeat scheduler.  Each check re-parses the heartbeat files into *)
(* a list of tasks (schedule = heading, prompt = body), restores each      *)
(* task's last_fired from self._last_fired, a map keyed by the schedule    *)
(* text, and fires the tasks that _should_fire accepts.  `call` holds the  *)
(* running run(): its map, and the tasks and firings of its last check.    *)
(* Time is counted in minutes.                                             *)
(***************************************************************************)
MaxBeatTime == 4

Never == NoTime     \* last_fired is None

\* the headings of the heartbeat files
Schedules == {"Every 1 minutes", "every 2 minutes", "hourly"}

Prompts == {"p1", "p2"}

\* _should_fire: the N of "every N minutes", 0 for an unknown format
Minutes(schedule) ==
    CASE schedule = "Every 1 minutes" -> 1
      [] schedule = "every 2 minutes" -> 2
      [] OTHER -> 0

\* _should_fire(task, now), with task.last_fired = last
ShouldFire(schedule, last, t) ==
    /\ Minutes(schedule) > 0
    /\ (last = Never \/ t - last >= Minutes(schedule))

HeartbeatTask(s, p) == [schedule |-> s, prompt |-> p]

\* the lists of tasks that the files may hold at a check: two tasks under
\* the same heading, two under different headings, one of an unknown format
TaskLists ==
    { <<HeartbeatTask("Every 1 minutes", "p1"), HeartbeatTask("Every 1 minutes", "p2")>>,
      <<HeartbeatTask("Every 1 minutes", "p1"), HeartbeatTask("every 2 minutes", "p2")>>,
      <<HeartbeatTask("every 2 minutes", "p1"), HeartbeatTask("hourly", "p2")>> }

RECURSIVE CheckFrom(_, _, _, _, _)
\* the loop over self._tasks from task i on: last_fired is the map so far,
\* fired the indexes of the tasks fired so far, own the time at which each
\* task (schedule and prompt) itself fired last
CheckFrom(parsed, i, last_fired, fired, own) ==
    IF i > Len(parsed) THEN [last_fired |-> last_fired, fired |-> fired, own |-> own]
    ELSE LET task == parsed[i]
         IN  IF ShouldFire(task.schedule, last_fired[task.schedule], now)
             THEN CheckFrom(parsed, i + 1,
                            [last_fired EXCEPT ![task.schedule] = now],
                            Append(fired, i),
                            [own EXCEPT ![task] = now])
             ELSE CheckFrom(parsed, i + 1, last_fired, fired, own)

\* HeartbeatScheduler.run(): self._last_fired = {}
HeartbeatRun ==
    /\ call = NoCall
    /\ call' = [op |-> "run", tasks |-> <<>>, fired |-> <<>>, checks |-> 0,
                last_fired |-> [s \in Schedules |-> Never],
                own |-> [task \in [schedule : Schedules, prompt : Prompts] |-> Never]]
    /\ UNCHANGED <<tvars, evars, dvars, now, qvars, mvars>>

\* one turn of the loop of run(): the files are parsed and every task is
\* looked at; an exception of on_heartbeat is logged and the loop goes on
HeartbeatCheck(parsed) ==
    /\ call.op = "run"
    /\ call.checks <= now
    /\ LET r == CheckFrom(parsed, 1, call.last_fired, <<>>, call.own)
       IN  call' = [op |-> "run", tasks |-> parsed, fired |-> r.fired,
                    checks |-> now + 1,
                    last_fired |-> r.last_fired, own |-> r.own]
    /\ UNCHANGED <<tvars, evars, dvars, now, qvars, mvars>>

\* asyncio.sleep(self._check_interval): a minute passes
HeartbeatSleep ==
    /\ call.op = "run"
    /\ now < MaxBeatTime
    /\ now' = now + 1
    /\ UNCHANGED <<call, tvars, evars, dvars, qvars, mvars>>

HeartbeatNext ==
    \/ HeartbeatRun
    \/ \E parsed \in TaskLists : HeartbeatCheck(parsed)
    \/ HeartbeatSleep

SpecHeartbeat == Init /\ [][HeartbeatNext]_vars

\* the step is a check of the scheduler
IsCheck == call.op = "run" /\ call'.op = "run" /\ call'.checks # call.checks

\* task i of the check is due under its own schedule: an "every N minutes"
\* task that has never fired, or whose interval has elapsed since it fired
DueItself(i) ==
    LET task == call'.tasks[i]
    IN  ShouldFire(task.schedule, call.own[task], now)

\* the number of times the check fired its task i
TimesFired(i) ==
    Cardinality({j \in 1..Len(call'.fired) : call'.fired[j] = i})

\* C40: at every check of the heartbeat scheduler each parsed task that is
\* due under its own schedule is fired exactly once in that check, also when
\* two tasks carry the same schedule text, and a task that is not due is not
\* fired.
C40_EachDueTaskFiresOnce ==
    [][IsCheck =>
          \A i \in 1..Len(call'.tasks) :
              TimesFired(i) = IF DueItself(i) THEN 1 ELSE 0]_vars

=============================================================================
